---- MODULE Spec2Model ----
(***************************************************************************)
(* A model of the bitceptron retriever: the four-phase workflow of         *)
(* Retriever (src/src/retriever.rs) as driven by the command line frontend *)
(* (src/bitceptron-retriever-cli/main.rs) or by a library caller, and the  *)
(* streaming match stage made of a spawned producer task and a consumer    *)
(* loop joined by a bounded tokio mpsc channel.                            *)
(*                                                                         *)
(* Key derivation and script building are external primitives: a public    *)
(* key is an opaque value determined by its path, a script-pubkey one      *)
(* determined by template and key.                                         *)
(***************************************************************************)
EXTENDS Integers, Sequences, FiniteSets, TLC

VARIABLES
    explorer,            \* Retriever.explorer: base_paths, explore (steps), sweep
    select_descriptors,  \* Retriever.select_descriptors
    dump_file,           \* <data_dir>/utxo_dump.dat: exists, valid, records
    uspk_set,            \* Retriever.uspk_set: status and inner set
    finds,               \* Retriever.finds
    detailed_finds,      \* Retriever.detailed_finds (an Option)
    driver,              \* who calls the Retriever: "main" or "lib"
    pc,                  \* the caller's position
    last_result,         \* the last call that returned: result, and whether it failed
    producer,            \* the spawned producer task: status, position, panic
    consumer,            \* the receive loop: status
    chan,                \* paths sent and not yet received
    rx_alive,            \* the Receiver has not been dropped
    sent,                \* history: paths sent in the current search
    received,            \* history: paths received in the current search
    started,             \* history: the phases main has started, in order
    failed,              \* history: main's phases in which something really failed
    cancelled,           \* history: the current search was cancelled
    calls,               \* number of calls made by the library caller
    setting,             \* the ExplorerSetting handed to Explorer::new
    exploration,         \* what Explorer::new made of it
    iter,                \* an ExplorationStep used as an iterator, and what it yielded
    memory,              \* the storage that held secrets, and what is left in it
    runs,                \* the finds and detailed finds of whole runs of the binary
    sizes                \* an exploration path and the sizes computed for it in u64

vars == <<explorer, select_descriptors, dump_file, uspk_set, finds, detailed_finds,
          driver, pc, last_result, producer, consumer, chan, rx_alive, sent,
          received, started, failed, cancelled, calls, setting, exploration,
          iter, memory, runs, sizes>>

(***************************************************************************)
(* Bounds of the model.                                                    *)
(***************************************************************************)
\* Capacity of the match channel.  The program creates the channel with
\* mpsc::channel(1024); the model scales the capacity down, and the
\* exploration spaces with it, so that spaces larger than the capacity and a
\* full channel are reached.
ChannelCapacity == 2
\* Number of steps of an exploration path.
MaxSteps == 2
\* Number of calls a library caller makes on one Retriever.
MaxCalls == 3
\* Number of "/"-separated segments of an exploration string.
MaxSegments == 2
\* Number of calls of next() on one step iterator between two resets.
MaxNext == 4
\* Number of calls of reset_iterator on one step iterator.
MaxResets == 1
\* Number of records of a dump.
MaxRecords == 3
\* Number of wildcard steps of an exploration string.
MaxWildcards == 10
\* Number of runs of the binary that are compared.
MaxRuns == 2

(***************************************************************************)
(* 32-bit unsigned indices.  A u32 is kept as its top bit (hi, the         *)
(* hardened bit of BIP32) and its low 31 bits (lo).                        *)
(***************************************************************************)
\* The largest value of the low 31 bits, 2^31 - 1.
Low31Max == 2147483647

U32(hi, lo) == [hi |-> hi, lo |-> lo]

\* v + k in u32 arithmetic, for a small k >= 0.
U32Add(v, k) ==
    IF v.lo <= Low31Max - k THEN U32(v.hi, v.lo + k)
    ELSE U32((v.hi + 1) % 2, v.lo - (Low31Max - k) - 1)

\* e - s + 1 for s <= e.
U32Span(s, e) ==
    IF e.hi = s.hi THEN e.lo - s.lo + 1
    ELSE (Low31Max - s.lo) + 1 + e.lo + 1

(***************************************************************************)
(* Child numbers and derivation paths (bitcoin::bip32).  A derivation path *)
(* is a sequence of child numbers, each a 31-bit index that is normal or   *)
(* hardened.                                                               *)
(***************************************************************************)
Normal(i) == [index |-> i, hardened |-> FALSE]

Hardened(i) == [index |-> i, hardened |-> TRUE]

\* The text of one child as the step iterator formats it: the index and
\* whether a ' follows it.
ChildStr(n, h) == [n |-> n, h |-> h]

\* ChildNumber::from_str: from_hardened_idx / from_normal_idx reject an index
\* that has the top bit set.
ChildFromStrOk(c) == c.n.hi = 0

ChildFromStr(c) == IF c.h THEN Hardened(c.n.lo) ELSE Normal(c.n.lo)

\* DerivationPath::from_str(&format!("m/{}", explore_path.join("/")))
PathFromStrOk(strs) == \A i \in 1..Len(strs) : ChildFromStrOk(strs[i])

PathFromStr(strs) == [i \in 1..Len(strs) |-> ChildFromStr(strs[i])]

\* DerivationPath::extend
Extend(base, path) == base \o path

(***************************************************************************)
(* ExplorationStep and its iterator.                                       *)
(***************************************************************************)
ExplorationStep(s, e, h) == [start_inclusive |-> s, end_inclusive |-> e, hardness |-> h]

num_children(step) ==
    IF step.hardness = "HardenedAndNormal"
    THEN 2 * U32Span(step.start_inclusive, step.end_inclusive)
    ELSE U32Span(step.start_inclusive, step.end_inclusive)

\* Iterator::next at iterator_position = pos, for pos < num_children.
StepNext(step, pos) ==
    LET size == num_children(step) IN
    CASE step.hardness = "Hardened" -> ChildStr(U32Add(step.start_inclusive, pos), TRUE)
      [] step.hardness = "Normal" -> ChildStr(U32Add(step.start_inclusive, pos), FALSE)
      [] OTHER ->
            IF pos < size \div 2
            THEN ChildStr(U32Add(step.start_inclusive, pos), TRUE)
            ELSE ChildStr(U32Add(step.start_inclusive, pos - (size \div 2)), FALSE)

\* The items a fresh step yields before its first None.
StepItems(step) == [k \in 1..num_children(step) |-> StepNext(step, k - 1)]

RECURSIVE ProductSize(_)
ProductSize(iters) ==
    IF iters = <<>> THEN 1 ELSE Len(Head(iters)) * ProductSize(Tail(iters))

\* itertools multi_cartesian_product over the steps' items: item k (from 0),
\* the last iterator cycling fastest.
RECURSIVE ProductItem(_, _)
ProductItem(iters, k) ==
    IF iters = <<>> THEN <<>>
    ELSE LET rest == ProductSize(Tail(iters)) IN
         <<Head(iters)[(k \div rest) + 1]>> \o ProductItem(Tail(iters), k % rest)

\* explore.iter().map(|step| step.to_owned()): one fresh iterator per step.
ExploreIters(explore) == [i \in 1..Len(explore) |-> StepItems(explore[i])]

\* The producer's loops: for each explore path, for each base, one send.
\* Item k (from 0) of the stream: the text path and the base it extends.
StreamLen(ex) == ProductSize(ExploreIters(ex.explore)) * Len(ex.base_paths)

StreamText(ex, k) == ProductItem(ExploreIters(ex.explore), k \div Len(ex.base_paths))

\* An inner loop that extends the first base path every time.
StreamBaseFirst(ex, k) == ex.base_paths[1]

StreamBase(ex, k) == ex.base_paths[(k % Len(ex.base_paths)) + 1]

(***************************************************************************)
(* The exploration space: the complete paths an exploration path stands    *)
(* for, as Explorer::new materialises them.                                *)
(***************************************************************************)
\* The children of one step in the order the generator loops over them: for
\* HardenedAndNormal the hardened range, then the normal range.
StepChildren(step) ==
    LET n == U32Span(step.start_inclusive, step.end_inclusive) IN
    CASE step.hardness = "Hardened" ->
            [k \in 1..n |-> ChildStr(U32Add(step.start_inclusive, k - 1), TRUE)]
      [] step.hardness = "Normal" ->
            [k \in 1..n |-> ChildStr(U32Add(step.start_inclusive, k - 1), FALSE)]
      [] OTHER ->
            [k \in 1..(2 * n) |->
                IF k <= n THEN ChildStr(U32Add(step.start_inclusive, k - 1), TRUE)
                ELSE ChildStr(U32Add(step.start_inclusive, k - n - 1), FALSE)]

\* One round of the generator: every child number, and under it every path
\* built so far.
GenerateRound(paths, step) ==
    LET cs == StepChildren(step) IN
    IF paths = <<>> THEN [k \in 1..Len(cs) |-> <<cs[k]>>]
    ELSE [k \in 1..(Len(cs) * Len(paths)) |->
            Append(paths[((k - 1) % Len(paths)) + 1], cs[((k - 1) \div Len(paths)) + 1])]

RECURSIVE GenerateFrom(_, _)
GenerateFrom(paths, steps) ==
    IF steps = <<>> THEN paths
    ELSE GenerateFrom(GenerateRound(paths, Head(steps)), Tail(steps))

generate_derivation_paths_for_exploration_path(steps) == GenerateFrom(<<>>, steps)

RECURSIVE SweepFrom(_, _)
SweepFrom(steps, i) ==
    IF i > Len(steps) THEN <<>>
    ELSE generate_derivation_paths_for_exploration_path(SubSeq(steps, 1, i))
            \o SweepFrom(steps, i + 1)

\* "m", then the paths of steps[..0], steps[..1], ..., steps[..len].
generate_derivation_paths_for_exploration_path_sweep(steps) ==
    << <<>> >> \o SweepFrom(steps, 0)

exploration_paths(ex) ==
    IF ex.sweep THEN generate_derivation_paths_for_exploration_path_sweep(ex.explore)
    ELSE generate_derivation_paths_for_exploration_path(ex.explore)

\* The derivation paths of the exploration space: every base path extended by
\* every exploration path that is a derivation path.
ExplorationSpace(ex) ==
    LET eps == exploration_paths(ex) IN
    { Extend(ex.base_paths[b], PathFromStr(eps[k])) :
        <<b, k>> \in { bk \in (1..Len(ex.base_paths)) \X (1..Len(eps)) :
                        PathFromStrOk(eps[bk[2]]) } }

(***************************************************************************)
(* Keys, descriptors and script-pubkeys.                                   *)
(***************************************************************************)
CoveredDescriptors == <<"P2pk", "P2pkh", "P2wpkh", "P2shwpkh", "P2tr">>

DEFAULT_SELECTED_DESCRIPTORS == {"P2pk", "P2pkh", "P2shwpkh", "P2tr", "P2wpkh"}

\* master_xpriv.derive_priv(path).to_keypair().public_key()
derive_pubkey(path) == [pubkey_at |-> path]

\* Descriptor::new_pk / new_pkh / new_wpkh / new_sh_wpkh / new_tr
Descriptor(template, pubkey) == [template |-> template, key |-> pubkey]

script_pubkey(desc) == [script |-> desc.template, of |-> desc.key]

PathDescriptorPair(path, desc) == [path |-> path, desc |-> desc]

\* A matcher without the filter: every template is tried.
SelectedAlways(select, template) == TRUE

\* The template is probed when the selected descriptors contain it.
Selected(select, template) == template \in select

\* UspkSet membership of the descriptor's script-pubkey.
Contains(set, desc) == script_pubkey(desc) \in set

\* One iteration of the consumer's loop body: the finds pushed for one
\* received path, in the order of the five blocks.
ProcessPath(path, select, set) ==
    LET pubkey == derive_pubkey(path)
        pair(i) == PathDescriptorPair(path, Descriptor(CoveredDescriptors[i], pubkey))
        hit(p) == Selected(select, p.desc.template) /\ Contains(set, p.desc)
    IN SelectSeq([i \in 1..Len(CoveredDescriptors) |-> pair(i)], hit)

(***************************************************************************)
(* Initial states: a Retriever just built by Retriever::new from a         *)
(* setting, and the data directory as the run finds it.                    *)
(***************************************************************************)
StepOptions ==
    { ExplorationStep(U32(0, 0), U32(0, 1), "Normal"),
      ExplorationStep(U32(0, 0), U32(0, 0), "HardenedAndNormal"),
      ExplorationStep(U32(0, Low31Max), U32(1, 0), "Hardened") }

RECURSIVE SeqsUpTo(_, _)
SeqsUpTo(S, n) ==
    IF n = 0 THEN { <<>> }
    ELSE LET shorter == SeqsUpTo(S, n - 1) IN
         shorter \cup { Append(q, x) : q \in { r \in shorter : Len(r) = n - 1 }, x \in S }

ExploreOptions == { q \in SeqsUpTo(StepOptions, MaxSteps) : Len(q) >= 1 }

BaseOptions == { << <<>> >>, << <<Normal(0)>>, <<Hardened(0)>> >> }

SelectOptions == { {}, {"P2wpkh", "P2tr"}, DEFAULT_SELECTED_DESCRIPTORS }

\* The script-pubkey of a coin locked to template t at a path.
CoinAt(t, path) == script_pubkey(Descriptor(t, derive_pubkey(path)))

\* One record of a dump: the script-pubkey with the amount and the height.
TxOut(script, amount, height) ==
    [script_pubkey |-> script, amount |-> amount, height |-> height]

\* Contents of a dump: coins at paths inside and outside the spaces above,
\* one script-pubkey twice with another amount and height.
DumpOptions ==
    { << TxOut(CoinAt("P2wpkh", <<Normal(0)>>), 1, 1),
         TxOut(CoinAt("P2pkh", <<Normal(0)>>), 2, 1),
         TxOut(CoinAt("P2tr", <<Normal(0), Hardened(0)>>), 1, 2),
         TxOut(CoinAt("P2pkh", <<Hardened(0), Normal(1)>>), 1, 1),
         TxOut(CoinAt("P2wpkh", <<>>), 2, 2),
         TxOut(CoinAt("P2wpkh", <<Normal(0)>>), 2, 2),
         TxOut(CoinAt("P2pk", <<Normal(5)>>), 1, 1) >> }

None == [is_some |-> FALSE, value |-> <<>>]

Some(v) == [is_some |-> TRUE, value |-> v]

\* A Retriever that is built: its setting has been consumed by Explorer::new.
BuiltSetting ==
    [exploration_path |-> <<>>, exploration_depth |-> U32(0, 0),
     base_derivation_paths |-> <<>>, sweep |-> FALSE]

\* No ExplorationStep is iterated from outside the Retriever.
NoIterator ==
    [state |-> "unused", build |-> "release",
     step |-> ExplorationStep(U32(0, 0), U32(0, 0), "Normal"),
     iterator_position |-> U32(0, 0), yielded |-> <<>>, ended |-> "no",
     later |-> <<>>, resets |-> 0, fresh |-> <<>>]

\* No secret is followed, no run is compared, no size is computed.
NoMemory == [stage |-> "unused"]

NoRuns == [stage |-> "unused"]

NoSizes == [stage |-> "unused"]

NotBuilt ==
    [stage |-> "built", accepted |-> TRUE, path |-> <<>>, result |-> "Ok", size |-> 0,
     complete_paths |-> <<>>]

Init ==
    /\ explorer \in [base_paths : BaseOptions, explore : ExploreOptions, sweep : BOOLEAN]
    /\ select_descriptors \in SelectOptions
    /\ dump_file \in { f \in [exists : BOOLEAN, valid : BOOLEAN, records : DumpOptions] :
                        ~f.exists => f.valid }
    /\ uspk_set = [status |-> "Empty", set |-> {}]
    /\ finds = <<>>
    /\ detailed_finds = None
    /\ driver \in {"main", "lib"}
    /\ pc = "idle"
    /\ last_result = [call |-> "None", result |-> "None", failure |-> FALSE, rpc |-> 0]
    /\ producer = [status |-> "none", pos |-> 0, panic |-> "none"]
    /\ consumer = "none"
    /\ chan = <<>>
    /\ rx_alive = FALSE
    /\ sent = <<>>
    /\ received = <<>>
    /\ started = <<>>
    /\ failed = {}
    /\ cancelled = FALSE
    /\ calls = 0
    /\ memory = NoMemory
    /\ runs = NoRuns
    /\ sizes = NoSizes
    /\ setting = BuiltSetting
    /\ exploration = NotBuilt
    /\ iter = NoIterator

(***************************************************************************)
(* The caller.  main calls the four phases in order and panics on the      *)
(* first error; a library caller calls them in any order.                  *)
(***************************************************************************)
MainOrder == <<"P1", "P2", "P3", "P4">>

CanCall(phase) ==
    /\ pc = "idle"
    /\ IF driver = "main"
       THEN Len(started) < Len(MainOrder) /\ MainOrder[Len(started) + 1] = phase
       ELSE calls < MaxCalls

\* A call begins: main's phases are recorded as started, a library caller's
\* calls are counted.
Call(phase) ==
    /\ CanCall(phase)
    /\ started' = IF driver = "main" THEN Append(started, phase) ELSE started
    /\ calls' = IF driver = "lib" THEN calls + 1 ELSE calls

\* .map_err(|err| panic!(...)).unwrap() in main; a library caller goes on.
AfterReturn(result) ==
    IF driver = "main" /\ result # "Ok" THEN "exited" ELSE "idle"

\* A call returns: what it returned, and whether something in it really
\* failed, are recorded; a failure in one of main's phases is kept.
\* rpc is the number of requests the call sent to the node.
ReturnRpc(phase, result, failure, rpc) ==
    /\ last_result' = [call |-> phase, result |-> result, failure |-> failure,
                       rpc |-> rpc]
    /\ pc' = AfterReturn(result)
    /\ failed' = IF driver = "main" /\ failure THEN failed \cup {phase} ELSE failed

settingVars == <<explorer, select_descriptors, driver, setting, exploration, iter,
                 memory, runs, sizes>>

matchVars == <<producer, consumer, chan, rx_alive, sent, received, cancelled>>

(***************************************************************************)
(* P1: check_for_dump_in_data_dir_or_create_dump_file.                     *)
(***************************************************************************)
\* A file system in which every path exists.
PathExistsAlways(file) == TRUE

\* A file system in which no path exists.
PathExistsNever(file) == FALSE

\* Path::exists of <data_dir>/utxo_dump.dat.
PathExists(file) == file.exists

\* A dump_utxo_set that asks the node whether or not the file exists.
dump_utxo_set_overwrite(file, dir_ok, node_ok) ==
    IF ~dir_ok THEN [result |-> "IoError", file |-> file, rpc |-> 0]
    ELSE IF node_ok
         THEN [result |-> "Ok", file |-> [file EXCEPT !.exists = TRUE, !.valid = TRUE],
               rpc |-> 1]
         ELSE [result |-> "BitcoincoreRpcCrateError", file |-> file, rpc |-> 1]

\* BitcoincoreRpcClient::dump_utxo_set: refuses an existing file, creates the
\* directory (dir_ok: it exists or can be created), then sends dumptxoutset
\* and the node writes the file, or the call fails.
dump_utxo_set(file, dir_ok, node_ok) ==
    IF PathExists(file)
    THEN [result |-> "DumpFileAlreadyExistsInPath", file |-> file, rpc |-> 0]
    ELSE IF ~dir_ok
    THEN [result |-> "IoError", file |-> file, rpc |-> 0]
    ELSE IF node_ok
         THEN [result |-> "Ok", file |-> [file EXCEPT !.exists = TRUE, !.valid = TRUE],
               rpc |-> 1]
         ELSE [result |-> "BitcoincoreRpcCrateError", file |-> file, rpc |-> 1]

check_for_dump_in_data_dir_or_create_dump_file ==
    /\ Call("P1")
    /\ IF PathExists(dump_file)
       THEN /\ ReturnRpc("P1", "Ok", FALSE, 0)
            /\ UNCHANGED dump_file
       ELSE \E dir_ok \in BOOLEAN, node_ok \in BOOLEAN :
                IF ~dir_ok
                THEN \* fs::create_dir_all(data_dir_path)? fails.
                     /\ ReturnRpc("P1", "IoError", TRUE, 0)
                     /\ UNCHANGED dump_file
                ELSE LET r == dump_utxo_set(dump_file, dir_ok, node_ok) IN
                     /\ dump_file' = r.file
                     /\ ReturnRpc("P1", r.result, r.result # "Ok", r.rpc)
    /\ UNCHANGED <<settingVars, matchVars, uspk_set, finds, detailed_finds>>

\* A library caller calls dump_utxo_set on the client of the Retriever.
client_dump_utxo_set ==
    /\ Call("dump_utxo_set")
    /\ \E dir_ok \in BOOLEAN, node_ok \in BOOLEAN :
            LET r == dump_utxo_set(dump_file, dir_ok, node_ok) IN
            /\ dump_file' = r.file
            /\ ReturnRpc("dump_utxo_set", r.result, r.result # "Ok", r.rpc)
    /\ UNCHANGED <<settingVars, matchVars, uspk_set, finds, detailed_finds>>

(***************************************************************************)
(* P2: populate_uspk_set.                                                  *)
(***************************************************************************)
\* An insert that takes the records of the first block only.
InsertTxOutOfFirstBlock(set, txout) ==
    IF txout.height = 1 THEN set \cup {txout.script_pubkey} ELSE set

\* set.insert(txout.script_pubkey.as_bytes().to_vec())
InsertTxOut(set, txout) == set \cup {txout.script_pubkey}

\* while let Some(txout) = dump.next() { set.insert(..) }
RECURSIVE InsertAll(_, _, _)
InsertAll(set, records, k) ==
    IF k > Len(records) THEN set
    ELSE InsertAll(InsertTxOut(set, records[k]), records, k + 1)

\* UnspentScriptPupKeysSet::from_dump_file: Dump::new fails on a file it
\* cannot read; otherwise every record's script-pubkey is inserted.
from_dump_file(file) ==
    IF file.valid THEN [ok |-> TRUE, set |-> InsertAll({}, file.records, 1)]
    ELSE [ok |-> FALSE, set |-> {}]

\* populate_with_dump_file: Empty -> Populating -> Populated.  The status
\* a failed ingest leaves behind is left_status.
populate_with_dump_file(set, file, left_status) ==
    LET r == from_dump_file(file) IN
    IF r.ok THEN [ok |-> TRUE, uspk_set |-> [status |-> "Populated", set |-> r.set]]
    ELSE [ok |-> FALSE, uspk_set |-> [set EXCEPT !.status = left_status]]

\* let _ = tokio::join!(populate_with_dump_file(..)); Ok(())
populate_uspk_set_result(ingest_ok) == "Ok"

\* A populate_uspk_set that ingests whatever the status of the set.
populate_uspk_set_branch_always(status) == "populate"

\* The branch populate_uspk_set takes on the status of the set.
populate_uspk_set_branch(status) ==
    CASE status = "Empty" -> "populate"
      [] status = "Populating" -> "PopulatingUSPKSetInProgress"
      [] OTHER -> "USPKSetAlreadyPopulated"

populate_uspk_set_call ==
    /\ Call("P2")
    /\ LET branch == populate_uspk_set_branch(uspk_set.status) IN
       IF branch = "populate"
       THEN IF ~PathExists(dump_file)
            THEN ReturnRpc("P2", "NoDumpFileInDataDir", TRUE, 0)
            ELSE /\ pc' = "populating"
                 /\ UNCHANGED <<last_result, failed>>
       ELSE ReturnRpc("P2", branch, FALSE, 0)
    /\ UNCHANGED <<settingVars, matchVars, dump_file, uspk_set, finds, detailed_finds>>

populate_uspk_set_ingest ==
    /\ pc = "populating"
    /\ \E left_status \in {"Empty", "Populating"} :
            LET r == populate_with_dump_file(uspk_set, dump_file, left_status) IN
            /\ uspk_set' = r.uspk_set
            /\ ReturnRpc("P2", populate_uspk_set_result(r.ok), ~r.ok, 0)
    /\ UNCHANGED <<settingVars, matchVars, dump_file, finds, detailed_finds,
                   started, calls>>

(***************************************************************************)
(* P3: search_the_uspk_set.                                                *)
(***************************************************************************)
\* An unbounded channel: a send always completes.
HasCapacityAlways(ch) == TRUE

\* A channel that hands out the newest value first.
ChannelSendFront(ch, path) == <<path>> \o ch

\* A Sender that outlives its task: the channel never closes.
SenderDroppedNever(p) == FALSE

\* mpsc::Sender::send completes when the channel has a free slot.
HasCapacity(ch) == Len(ch) < ChannelCapacity

ChannelSend(ch, path) == Append(ch, path)

\* mpsc::Receiver::recv takes the oldest value.
ChannelRecvValue(ch) == Head(ch)

ChannelRecvRest(ch) == Tail(ch)

\* The Sender lives in the producer task and is dropped when the task ends.
SenderDropped(p) == p.status \in {"done", "panicked"}

\* What the consumer is when search_the_uspk_set has spawned the producer:
\* create_derivation_path_stream returns right after tokio::spawn, and the
\* receive loop starts while the producer runs.
ConsumerAfterSpawn == "running"

\* let _ = join!(create..); let _ = join!(process..); Ok(())
search_the_uspk_set_result(producer_status) == "Ok"

search_the_uspk_set_call ==
    /\ Call("P3")
    /\ producer.status # "running"
    /\ chan' = <<>>
    /\ rx_alive' = TRUE
    /\ producer' = [status |-> "running", pos |-> 0, panic |-> "none"]
    /\ consumer' = ConsumerAfterSpawn
    /\ sent' = <<>>
    /\ received' = <<>>
    /\ cancelled' = FALSE
    /\ pc' = "searching"
    /\ UNCHANGED <<settingVars, dump_file, uspk_set, finds, detailed_finds,
                   last_result, failed>>

\* One pass of the producer's inner loop body.
ProducerSend ==
    /\ producer.status = "running"
    /\ producer.pos < StreamLen(explorer)
    /\ LET text == StreamText(explorer, producer.pos)
           path == Extend(StreamBase(explorer, producer.pos), PathFromStr(text))
       IN
       IF ~PathFromStrOk(text)
       THEN \* DerivationPath::from_str(..).unwrap() panics; the task ends.
            /\ producer' = [producer EXCEPT !.status = "panicked", !.panic = "from_str"]
            /\ UNCHANGED <<chan, sent>>
       ELSE IF ~rx_alive
       THEN \* send(..).await is an Err once the Receiver is dropped, and
            \* .unwrap() panics; the task ends.
            /\ producer' = [producer EXCEPT !.status = "panicked", !.panic = "send"]
            /\ UNCHANGED <<chan, sent>>
       ELSE /\ HasCapacity(chan)
            /\ chan' = ChannelSend(chan, path)
            /\ sent' = Append(sent, path)
            /\ producer' = [producer EXCEPT !.pos = @ + 1]
    /\ UNCHANGED <<settingVars, dump_file, uspk_set, finds, detailed_finds, pc,
                   last_result, consumer, rx_alive, received, started, failed,
                   cancelled, calls>>

\* The loops are over: the task ends and drops the Sender.
ProducerFinish ==
    /\ producer.status = "running"
    /\ producer.pos = StreamLen(explorer)
    /\ producer' = [producer EXCEPT !.status = "done"]
    /\ UNCHANGED <<settingVars, dump_file, uspk_set, finds, detailed_finds, pc,
                   last_result, consumer, chan, rx_alive, sent, received, started,
                   failed, cancelled, calls>>

\* while let Some(path) = receiver.recv().await { ... }
ConsumerRecv ==
    /\ consumer = "running"
    /\ chan # <<>>
    /\ LET path == ChannelRecvValue(chan) IN
       /\ received' = Append(received, path)
       /\ finds' = finds \o ProcessPath(path, select_descriptors, uspk_set.set)
    /\ chan' = ChannelRecvRest(chan)
    /\ UNCHANGED <<settingVars, dump_file, uspk_set, detailed_finds, pc, last_result,
                   producer, consumer, rx_alive, sent, started, failed, cancelled, calls>>

\* recv() returns None: the channel is empty and the Sender is dropped.
ConsumerEnd ==
    /\ consumer = "running"
    /\ chan = <<>>
    /\ SenderDropped(producer)
    /\ consumer' = "done"
    /\ rx_alive' = FALSE
    /\ ReturnRpc("P3", search_the_uspk_set_result(producer.status),
                 producer.status = "panicked", 0)
    /\ UNCHANGED <<settingVars, dump_file, uspk_set, finds, detailed_finds, producer,
                   chan, sent, received, started, cancelled, calls>>

\* The caller drops the future of search_the_uspk_set: the Receiver and the
\* values it buffers are dropped with it, the spawned producer lives on.
CancelSearch ==
    /\ driver = "lib"
    /\ pc = "searching"
    /\ consumer = "running"
    /\ consumer' = "dropped"
    /\ rx_alive' = FALSE
    /\ chan' = <<>>
    /\ cancelled' = TRUE
    /\ pc' = "idle"
    /\ last_result' = [call |-> "P3", result |-> "Cancelled", failure |-> FALSE,
                       rpc |-> 0]
    /\ UNCHANGED <<settingVars, dump_file, uspk_set, finds, detailed_finds, producer,
                   sent, received, started, failed, calls>>

(***************************************************************************)
(* P4: get_details_of_finds_from_bitcoincore.                              *)
(***************************************************************************)
to_path_scan_request_descriptor_trio(pair) ==
    [path |-> pair.path, request |-> pair.desc, desc |-> pair.desc]

PathScanResultDescriptorTrio(path, scan_result, desc) ==
    [path |-> path, scan_result |-> scan_result, desc |-> desc]

\* client.scan_tx_out_set_blocking(&[request]): what the node holds for the
\* descriptor of the request.
scan_tx_out_set_blocking(request) == [scanned |-> request]

\* The loop of the blocking task, from request i on: what it sends on the
\* results channel and how many scantxoutset calls it has made.  The call
\* for request fail_at fails (0: none does): the error is sent and the
\* .unwrap() that follows ends the task.
RECURSIVE ScanLoop(_, _, _, _)
ScanLoop(requests, i, results, fail_at) ==
    IF i > Len(requests)
    THEN [sent |-> << [result |-> "Ok", value |-> results] >>, rpc |-> Len(requests)]
    ELSE IF i = fail_at
    THEN [sent |-> << [result |-> "BitcoincoreRpcCrateError", value |-> <<>>] >>,
          rpc |-> i]
    ELSE ScanLoop(requests, i + 1,
                  Append(results,
                         PathScanResultDescriptorTrio(
                            requests[i].path,
                            scan_tx_out_set_blocking(requests[i].request),
                            requests[i].desc)),
                  fail_at)

RECURSIVE Reverse(_)
Reverse(q) == IF q = <<>> THEN <<>> ELSE Append(Reverse(Tail(q)), Head(q))

\* A scan that answers the requests last to first.
scan_utxo_set_reversed(requests, fail_at) ==
    LET run == ScanLoop(Reverse(requests), 1, <<>>, fail_at) IN
    [result |-> Head(run.sent).result, value |-> Head(run.sent).value,
     rpc |-> run.rpc, outcomes |-> Len(run.sent)]

\* A scan that returns the results it has when a call fails.
scan_utxo_set_partial(requests, fail_at) ==
    LET upto == IF fail_at = 0 THEN Len(requests) ELSE fail_at - 1
        run == ScanLoop(SubSeq(requests, 1, upto), 1, <<>>, 0)
    IN [result |-> "Ok", value |-> Head(run.sent).value, rpc |-> run.rpc,
        outcomes |-> Len(run.sent)]

\* BitcoincoreRpcClient::scan_utxo_set: results_receiver.recv().await.unwrap()
\* is the first outcome the blocking task sent.
scan_utxo_set(requests, fail_at) ==
    LET run == ScanLoop(requests, 1, <<>>, fail_at) IN
    [result |-> Head(run.sent).result, value |-> Head(run.sent).value,
     rpc |-> run.rpc, outcomes |-> Len(run.sent)]

\* A list that never counts as empty.
is_empty_never(list) == FALSE

\* self.finds.lock().unwrap().is_empty()
is_empty(list) == list = <<>>

get_details_of_finds_from_bitcoincore ==
    /\ Call("P4")
    /\ IF is_empty(finds)
       THEN /\ ReturnRpc("P4", "Ok", FALSE, 0)
            /\ UNCHANGED detailed_finds
       ELSE \E fail_at \in 0..Len(finds) :
                LET requests == [i \in 1..Len(finds) |->
                                    to_path_scan_request_descriptor_trio(finds[i])]
                    r == scan_utxo_set(requests, fail_at)
                IN
                /\ detailed_finds' = IF r.result = "Ok" THEN Some(r.value)
                                     ELSE detailed_finds
                /\ ReturnRpc("P4", r.result, fail_at # 0, r.rpc)
    /\ UNCHANGED <<settingVars, matchVars, dump_file, uspk_set, finds>>

(***************************************************************************)
(* The getters of the detailed finds.                                      *)
(***************************************************************************)
\* A getter that answers whatever has been fetched.
get_detailed_finds_unchecked(detailed) == [result |-> "Ok", value |-> detailed.value]

get_detailed_finds(detailed) ==
    IF ~detailed.is_some
    THEN [result |-> "DetailsHaveNotBeenFetched", value |-> <<>>]
    ELSE [result |-> "Ok", value |-> detailed.value]

\* What print_detailed_finds_on_console returns; the lines it prints are
\* one per detailed find.
print_detailed_finds_on_console(detailed) ==
    IF ~detailed.is_some
    THEN [result |-> "DetailsHaveNotBeenFetched", printed |-> 0]
    ELSE [result |-> "Ok", printed |-> Len(detailed.value)]

\* A library caller reads the detailed finds.
get_detailed_finds_call ==
    /\ Call("get_detailed_finds")
    /\ ReturnRpc("get_detailed_finds", get_detailed_finds(detailed_finds).result,
                 FALSE, 0)
    /\ UNCHANGED <<settingVars, matchVars, dump_file, uspk_set, finds, detailed_finds>>

\* main ends with let _ = ret.print_detailed_finds_on_console(); a library
\* caller calls it when it likes.
print_detailed_finds_on_console_call ==
    /\ IF driver = "main"
       THEN /\ pc = "idle"
            /\ Len(started) = Len(MainOrder)
            /\ pc' = "exited"
       ELSE /\ CanCall("print_detailed_finds_on_console")
            /\ pc' = "idle"
    /\ calls' = IF driver = "lib" THEN calls + 1 ELSE calls
    /\ last_result' = [call |-> "print_detailed_finds_on_console",
                       result |-> print_detailed_finds_on_console(detailed_finds).result,
                       failure |-> FALSE, rpc |-> 0]
    /\ UNCHANGED <<settingVars, matchVars, dump_file, uspk_set, finds, detailed_finds,
                   started, failed>>

(***************************************************************************)
(* The specification.                                                      *)
(***************************************************************************)
Next ==
    \/ check_for_dump_in_data_dir_or_create_dump_file
    \/ populate_uspk_set_call
    \/ populate_uspk_set_ingest
    \/ search_the_uspk_set_call
    \/ ProducerSend
    \/ ProducerFinish
    \/ ConsumerRecv
    \/ ConsumerEnd
    \/ CancelSearch
    \/ get_details_of_finds_from_bitcoincore
    \/ client_dump_utxo_set
    \/ get_detailed_finds_call
    \/ print_detailed_finds_on_console_call

Spec == Init /\ [][Next]_vars

\* The tokio runtime polls every task that can make progress: the spawned
\* producer and the call the caller awaits.
InitFair ==
    /\ Init
    /\ select_descriptors = DEFAULT_SELECTED_DESCRIPTORS
    /\ ~explorer.sweep
    /\ dump_file.exists
    /\ dump_file.valid

FairSpec ==
    /\ InitFair
    /\ [][Next]_vars
    /\ WF_vars(ProducerSend \/ ProducerFinish)
    /\ WF_vars(ConsumerRecv \/ ConsumerEnd)

(***************************************************************************)
(* The exploration mini-language (src/src/explorer/exploration_path.rs).   *)
(* A string is a sequence of tokens: a maximal run of decimal digits with  *)
(* the number it denotes, or one other character.                          *)
(***************************************************************************)
Digits(v) == [kind |-> "digits", value |-> v]

Char(c) == [kind |-> c, value |-> U32(0, 0)]

\* A run of decimal digits that are not ASCII digits (the regex crate's \d is
\* Unicode's Nd).
DigitsNonAscii == [kind |-> "digits_non_ascii", value |-> U32(0, 0)]

\* str::parse::<u32> reads ASCII digits only.
ParsesAsU32(token) == token.kind = "digits"

\* A comparison that finds no range reversed.
U32LessNever(a, b) == FALSE

\* a < b on u32.
U32Less(a, b) == a.hi < b.hi \/ (a.hi = b.hi /\ a.lo < b.lo)

\* ^[\d./'ha*]+$
check_input_chars(input) ==
    /\ input # <<>>
    /\ \A i \in 1..Len(input) :
            input[i].kind \in {"digits", "digits_non_ascii", ".", "/", "'", "h", "a", "*"}

\* input.split('/'), with the empty pieces dropped.
RECURSIVE SplitOnSlash(_, _, _)
SplitOnSlash(input, piece, pieces) ==
    LET closed == IF piece = <<>> THEN pieces ELSE Append(pieces, piece) IN
    IF input = <<>> THEN closed
    ELSE IF Head(input).kind = "/" THEN SplitOnSlash(Tail(input), <<>>, closed)
    ELSE SplitOnSlash(Tail(input), Append(piece, Head(input)), pieces)

split_path_steps(input) == SplitOnSlash(input, <<>>, <<>>)

\* The step without the optional trailing [h'a].
StripSuffix(step) ==
    IF step # <<>> /\ step[Len(step)].kind \in {"h", "'", "a"}
    THEN SubSeq(step, 1, Len(step) - 1)
    ELSE step

IsDigits(step, i) ==
    i \in 1..Len(step) /\ step[i].kind \in {"digits", "digits_non_ascii"}

IsDotDot(step, i) ==
    /\ i \in 1..Len(step) /\ step[i].kind = "."
    /\ (i + 1) \in 1..Len(step) /\ step[i + 1].kind = "."

\* ^\d*(\.\.)?\d+[h'a]?$
step_is_range(step) ==
    LET body == StripSuffix(step) IN
    \/ Len(body) = 1 /\ IsDigits(body, 1)
    \/ Len(body) = 3 /\ IsDotDot(body, 1) /\ IsDigits(body, 3)
    \/ Len(body) = 4 /\ IsDigits(body, 1) /\ IsDotDot(body, 2) /\ IsDigits(body, 4)

\* ^\*[h'a]?$
step_is_wildcard(step) ==
    LET body == StripSuffix(step) IN Len(body) = 1 /\ body[1].kind = "*"

check_step_sanity(step) == step_is_wildcard(step) \/ step_is_range(step)

\* A hardness that ignores the suffix.
extract_step_hardness_normal(step) == "Normal"

extract_step_hardness(step) ==
    LET last == step[Len(step)].kind IN
    IF last \in {"h", "'"} THEN "Hardened"
    ELSE IF last = "a" THEN "HardenedAndNormal"
    ELSE "Normal"

StepOk(step) == [ok |-> TRUE, err |-> "None", step |-> step]

StepErr(err) ==
    [ok |-> FALSE, err |-> err,
     step |-> ExplorationStep(U32(0, 0), U32(0, 0), "Normal")]

translate_wildcard_step_string_to_exploration_step(step_string, exploration_depth) ==
    ExplorationStep(U32(0, 0), exploration_depth, extract_step_hardness(step_string))

\* point_regex ^\d+[h'a]?$, start_regex ^\d+\.\. and end_regex \.\.\d+ (the
\* leftmost match); the digits found are parsed as a u32 and unwrapped, the
\* start first.  "Panic" stands for the panic of the unwrap.
translate_range_step_string_to_exploration_step(step_string) ==
    LET point == Len(StripSuffix(step_string)) = 1 /\ IsDigits(step_string, 1)
        has_start == IsDigits(step_string, 1) /\ IsDotDot(step_string, 2)
        ends == { i \in 1..Len(step_string) :
                    IsDotDot(step_string, i) /\ IsDigits(step_string, i + 2) }
        end_at == CHOOSE i \in ends : \A j \in ends : i <= j
        start_inclusive ==
            IF point THEN step_string[1].value
            ELSE IF has_start THEN step_string[1].value
            ELSE U32(0, 0)
    IN  IF (point \/ has_start) /\ ~ParsesAsU32(step_string[1]) THEN StepErr("Panic")
        ELSE IF ~point /\ ends = {} THEN StepErr("InvalidStepRange")
        ELSE IF ~point /\ ~ParsesAsU32(step_string[end_at + 2]) THEN StepErr("Panic")
        ELSE LET end_inclusive == IF point THEN step_string[1].value
                                  ELSE step_string[end_at + 2].value
             IN  IF U32Less(end_inclusive, start_inclusive)
                 THEN StepErr("InvalidStepRange")
                 ELSE StepOk(ExplorationStep(start_inclusive, end_inclusive,
                                             extract_step_hardness(step_string)))

translate_step_string_to_exploration_step(step_string, exploration_depth) ==
    IF step_is_range(step_string)
    THEN translate_range_step_string_to_exploration_step(step_string)
    ELSE IF step_is_wildcard(step_string)
    THEN StepOk(translate_wildcard_step_string_to_exploration_step(step_string,
                                                                   exploration_depth))
    ELSE StepErr("InvalidExplorationPath")

\* ExplorationPath::new: the path and the depth, or the first error.
ExplorationPath_new(exploration_str, exploration_depth) ==
    LET exploration_path_split == split_path_steps(exploration_str)
        translated == [i \in 1..Len(exploration_path_split) |->
                        translate_step_string_to_exploration_step(
                            exploration_path_split[i], exploration_depth)]
        bad == { i \in 1..Len(translated) : ~translated[i].ok }
    IN  IF ~check_input_chars(exploration_str)
        THEN [ok |-> FALSE, err |-> "InvalidExplorationPath", path |-> <<>>]
        ELSE IF \E i \in 1..Len(exploration_path_split) :
                    ~check_step_sanity(exploration_path_split[i])
        THEN [ok |-> FALSE, err |-> "InvalidExplorationPath", path |-> <<>>]
        ELSE IF bad # {}
        THEN [ok |-> FALSE, err |-> translated[CHOOSE i \in bad : \A j \in bad : i <= j].err,
              path |-> <<>>]
        ELSE [ok |-> TRUE, err |-> "None",
              path |-> [i \in 1..Len(translated) |-> translated[i].step]]

RECURSIVE ChildrenProduct(_)
ChildrenProduct(path) ==
    IF path = <<>> THEN 1 ELSE num_children(Head(path)) * ChildrenProduct(Tail(path))

\* ExplorationPath::num_of_paths
num_of_paths(path) == IF path = <<>> THEN 0 ELSE ChildrenProduct(path)

\* ExplorationPath::num_of_paths_sweep_from_root
RECURSIVE SweepSizeFrom(_, _)
SweepSizeFrom(path, i) ==
    IF i > Len(path) THEN 0
    ELSE num_of_paths(SubSeq(path, 1, i)) + SweepSizeFrom(path, i + 1)

num_of_paths_sweep_from_root(path) == 1 + SweepSizeFrom(path, 0)

\* The exploration paths as derivation paths, or the error of the first child
\* number that is not one: every child of every step is visited.
GenerateResult(texts) ==
    IF \A k \in 1..Len(texts) : PathFromStrOk(texts[k])
    THEN [ok |-> TRUE, paths |-> [k \in 1..Len(texts) |-> PathFromStr(texts[k])]]
    ELSE [ok |-> FALSE, paths |-> <<>>]

\* for base_path in base_derivation_paths { for path in exploration_paths {..} }
complete_paths(bases, paths) ==
    [k \in 1..(Len(bases) * Len(paths)) |->
        Extend(bases[((k - 1) \div Len(paths)) + 1], paths[((k - 1) % Len(paths)) + 1])]

(***************************************************************************)
(* Explorer::new on an ExplorerSetting.  The mnemonic is a valid one.      *)
(***************************************************************************)
SegmentOptions ==
    { <<>>,
      <<Digits(U32(0, 1))>>,
      <<Digits(U32(0, 0)), Char("."), Char("."), Digits(U32(0, 1))>>,
      <<Char("."), Char("."), Digits(U32(0, 1)), Char("h")>>,
      <<Digits(U32(0, 0)), Char("a")>>,
      <<Char("*")>>,
      <<Char("*"), Char("'")>>,
      <<Digits(U32(0, 1)), Char("."), Char("."), Digits(U32(0, 0))>>,
      <<Digits(U32(0, 1)), Char(".")>>,
      <<Digits(U32(1, 0))>>,
      <<Digits(U32(0, Low31Max)), Char("."), Char("."), Digits(U32(1, 0)), Char("h")>>,
      <<Char("x"), Digits(U32(0, 1))>>,
      <<DigitsNonAscii>> }

\* Every segment behind a slash: "" for no segment, "/" for one empty segment.
RECURSIVE JoinSegments(_)
JoinSegments(segments) ==
    IF segments = <<>> THEN <<>>
    ELSE <<Char("/")>> \o Head(segments) \o JoinSegments(Tail(segments))

\* "*a/..2h/4", the string of the sweep tests.
SweepTestString ==
    <<Char("*"), Char("a"), Char("/"), Char("."), Char("."), Digits(U32(0, 2)), Char("h"),
      Char("/"), Digits(U32(0, 4))>>

ExplorationStringOptions ==
    { JoinSegments(q) : q \in SeqsUpTo(SegmentOptions, MaxSegments) } \cup {SweepTestString}

DepthOptions == { U32(0, 0), U32(0, 1), U32(0, 2), U32(0, 3) }

\* Base paths as the setting gives them, in text: one "m", two different
\* paths, the same path twice.
BaseStringOptions ==
    { << <<>> >>,
      << <<ChildStr(U32(0, 0), FALSE)>>, <<ChildStr(U32(0, 0), TRUE)>> >>,
      << <<ChildStr(U32(0, 0), FALSE)>>, <<ChildStr(U32(0, 0), FALSE)>> >> }

\* Bounds of the steps ExplorationStep::new is called with.
StartOptions == { U32(0, 0), U32(0, 1), U32(0, 2), U32(0, Low31Max) }

EndOptions ==
    { U32(0, 0), U32(0, 1), U32(0, 3), U32(0, Low31Max), U32(1, 0), U32(1, Low31Max) }

SettingOptions ==
    [exploration_path : ExplorationStringOptions, exploration_depth : DepthOptions,
     base_derivation_paths : BaseStringOptions, sweep : BOOLEAN]

Explorer_new ==
    /\ exploration.stage = "setting"
    /\ LET parsed ==
                ExplorationPath_new(setting.exploration_path, setting.exploration_depth)
           size == Len(setting.base_derivation_paths)
                    * (IF setting.sweep
                       THEN num_of_paths_sweep_from_root(parsed.path)
                       ELSE num_of_paths(parsed.path))
           bases_ok == \A b \in 1..Len(setting.base_derivation_paths) :
                            PathFromStrOk(setting.base_derivation_paths[b])
           base_derivation_paths ==
                [b \in 1..Len(setting.base_derivation_paths) |->
                    PathFromStr(setting.base_derivation_paths[b])]
           generated ==
                GenerateResult(
                    IF setting.sweep
                    THEN generate_derivation_paths_for_exploration_path_sweep(
                            parsed.path)
                    ELSE generate_derivation_paths_for_exploration_path(
                            parsed.path))
       IN  exploration' =
             IF ~parsed.ok
             THEN [stage |-> "done", accepted |-> FALSE, path |-> <<>>,
                   result |-> parsed.err, size |-> 0, complete_paths |-> <<>>]
             ELSE IF ~bases_ok \/ ~generated.ok
             THEN [stage |-> "done", accepted |-> TRUE, path |-> parsed.path,
                   result |-> "Bip32Error", size |-> size, complete_paths |-> <<>>]
             ELSE [stage |-> "done", accepted |-> TRUE, path |-> parsed.path,
                   result |-> "Ok", size |-> size,
                   complete_paths |-> complete_paths(base_derivation_paths,
                                                     generated.paths)]
    /\ UNCHANGED <<explorer, select_descriptors, dump_file, uspk_set, finds,
                   detailed_finds, driver, pc, last_result, producer, consumer, chan,
                   rx_alive, sent, received, started, failed, cancelled, calls, setting,
                   iter, memory, runs, sizes>>

PathInit ==
    /\ setting \in SettingOptions
    /\ exploration = [stage |-> "setting", accepted |-> FALSE, path |-> <<>>,
                      result |-> "None", size |-> 0, complete_paths |-> <<>>]
    /\ explorer = [base_paths |-> << <<>> >>,
                   explore |-> <<ExplorationStep(U32(0, 0), U32(0, 0), "Normal")>>,
                   sweep |-> FALSE]
    /\ select_descriptors = DEFAULT_SELECTED_DESCRIPTORS
    /\ dump_file = [exists |-> FALSE, valid |-> TRUE,
                    records |-> CHOOSE d \in DumpOptions : TRUE]
    /\ uspk_set = [status |-> "Empty", set |-> {}]
    /\ finds = <<>>
    /\ detailed_finds = None
    /\ driver = "lib"
    /\ pc = "idle"
    /\ last_result = [call |-> "None", result |-> "None", failure |-> FALSE, rpc |-> 0]
    /\ producer = [status |-> "none", pos |-> 0, panic |-> "none"]
    /\ consumer = "none"
    /\ chan = <<>>
    /\ rx_alive = FALSE
    /\ sent = <<>>
    /\ received = <<>>
    /\ started = <<>>
    /\ failed = {}
    /\ cancelled = FALSE
    /\ calls = 0
    /\ memory = NoMemory
    /\ runs = NoRuns
    /\ sizes = NoSizes
    /\ iter = NoIterator

PathNext == Explorer_new

PathSpec == PathInit /\ [][PathNext]_vars


(***************************************************************************)
(* ExplorationStep as an iterator (src/src/explorer/exploration_step.rs).  *)
(* The arithmetic is u32 arithmetic: an overflow panics in a build with    *)
(* overflow checks (debug) and wraps around in one without (release).      *)
(***************************************************************************)
\* a + b on u32: the wrapped value, and whether it overflowed.
U32AddW(a, b) ==
    LET carry == IF a.lo <= Low31Max - b.lo THEN 0 ELSE 1
        lo == IF carry = 0 THEN a.lo + b.lo ELSE a.lo - (Low31Max - b.lo) - 1
        hi == a.hi + b.hi + carry
    IN  [value |-> U32(hi % 2, lo), overflow |-> hi >= 2]

\* a - b on u32: the wrapped value, and whether it overflowed.
U32SubW(a, b) ==
    LET borrow == IF a.lo >= b.lo THEN 0 ELSE 1
        lo == IF borrow = 0 THEN a.lo - b.lo ELSE (a.lo + (Low31Max - b.lo)) + 1
        hi == a.hi - b.hi - borrow
    IN  [value |-> U32((hi + 2) % 2, lo), overflow |-> hi < 0]

\* a / 2 on u32.
U32Half(a) == U32(0, a.hi * 1073741824 + (a.lo \div 2))

\* ExplorationStep::num_children in u32 arithmetic.
num_children_u32(step) ==
    LET span == U32SubW(step.end_inclusive, step.start_inclusive)
        count == U32AddW(span.value, U32(0, 1))
        twice == U32AddW(count.value, count.value)
    IN  IF step.hardness = "HardenedAndNormal"
        THEN [value |-> twice.value,
              overflow |-> span.overflow \/ count.overflow \/ twice.overflow]
        ELSE [value |-> count.value, overflow |-> span.overflow \/ count.overflow]

\* ExplorationStep::new: any start, end and hardness.
ExplorationStep_new ==
    /\ iter.state = "unbuilt"
    /\ \E start_inclusive \in StartOptions, end_inclusive \in EndOptions,
          hardness \in {"Hardened", "Normal", "HardenedAndNormal"} :
            iter' = [iter EXCEPT !.state = "built",
                                 !.step = ExplorationStep(start_inclusive, end_inclusive,
                                                          hardness),
                                 !.iterator_position = U32(0, 0)]
    /\ UNCHANGED <<explorer, select_descriptors, dump_file, uspk_set, finds,
                   detailed_finds, driver, pc, last_result, producer, consumer, chan,
                   rx_alive, sent, received, started, failed, cancelled, calls, setting,
                   exploration, memory, runs, sizes>>

\* What one call of Iterator::next returns, and the position it leaves: the
\* position is incremented whether the result is None or a child.
Iterator_next_result(it) ==
    LET size == num_children_u32(it.step)
        half == U32Half(size.value)
        index == U32AddW(it.step.start_inclusive, it.iterator_position)
        second == U32SubW(index.value, half)
        position == U32AddW(it.iterator_position, U32(0, 1))
        checked == it.build = "debug"
        Panic == [kind |-> "Panic", child |-> ChildStr(U32(0, 0), FALSE),
                  position |-> it.iterator_position]
        Returned(kind, child) ==
            IF checked /\ position.overflow THEN Panic
            ELSE [kind |-> kind, child |-> child, position |-> position.value]
    IN  IF checked /\ size.overflow
        THEN Panic
        ELSE IF it.iterator_position = size.value
        THEN Returned("None", ChildStr(U32(0, 0), FALSE))
        ELSE IF checked /\ index.overflow
        THEN Panic
        ELSE IF it.step.hardness = "Hardened"
                \/ (it.step.hardness = "HardenedAndNormal"
                     /\ U32Less(it.iterator_position, half))
        THEN Returned("Some", ChildStr(index.value, TRUE))
        ELSE IF it.step.hardness = "Normal"
        THEN Returned("Some", ChildStr(index.value, FALSE))
        ELSE IF checked /\ second.overflow
        THEN Panic
        ELSE Returned("Some", ChildStr(second.value, FALSE))

\* What the calls of next() returned since the step was built or reset.
IteratorTrace(it) ==
    [k \in 1..Len(it.yielded) |-> [kind |-> "Some", child |-> it.yielded[k]]]
    \o (IF it.ended = "no" THEN <<>>
        ELSE <<[kind |-> IF it.ended = "none" THEN "None" ELSE "Panic",
                child |-> ChildStr(U32(0, 0), FALSE)]>>)
    \o it.later

IteratorPanicked(it) ==
    it.ended = "panic" \/ \E k \in 1..Len(it.later) : it.later[k].kind = "Panic"

\* Iterator::next: the children up to the first None are kept in yielded, what
\* the calls after the first None return is kept in later.
Iterator_next ==
    /\ iter.state = "built"
    /\ ~IteratorPanicked(iter)
    /\ Len(iter.yielded) + Len(iter.later) < MaxNext
    /\ LET r == Iterator_next_result(iter) IN
       iter' = IF iter.ended = "none"
               THEN [iter EXCEPT !.later = Append(@, [kind |-> r.kind, child |-> r.child]),
                                 !.iterator_position = r.position]
               ELSE IF r.kind = "Panic"
               THEN [iter EXCEPT !.ended = "panic"]
               ELSE IF r.kind = "None"
               THEN [iter EXCEPT !.ended = "none", !.iterator_position = r.position]
               ELSE [iter EXCEPT !.yielded = Append(@, r.child),
                                 !.iterator_position = r.position]
    /\ UNCHANGED <<explorer, select_descriptors, dump_file, uspk_set, finds,
                   detailed_finds, driver, pc, last_result, producer, consumer, chan,
                   rx_alive, sent, received, started, failed, cancelled, calls, setting,
                   exploration, memory, runs, sizes>>

\* ExplorationStep::reset_iterator: the position is set to 0.  What the calls
\* returned before the first reset is kept in fresh.
reset_iterator ==
    /\ iter.state = "built"
    /\ ~IteratorPanicked(iter)
    /\ iter.resets < MaxResets
    /\ iter' = [iter EXCEPT !.iterator_position = U32(0, 0),
                            !.fresh = IF iter.resets = 0 THEN IteratorTrace(iter) ELSE @,
                            !.resets = @ + 1,
                            !.yielded = <<>>, !.ended = "no", !.later = <<>>]
    /\ UNCHANGED <<explorer, select_descriptors, dump_file, uspk_set, finds,
                   detailed_finds, driver, pc, last_result, producer, consumer, chan,
                   rx_alive, sent, received, started, failed, cancelled, calls, setting,
                   exploration, memory, runs, sizes>>

IterInit ==
    /\ iter \in { [NoIterator EXCEPT !.state = "unbuilt", !.build = b] :
                    b \in {"debug", "release"} }
    /\ setting = BuiltSetting
    /\ exploration = NotBuilt
    /\ explorer = [base_paths |-> << <<>> >>,
                   explore |-> <<ExplorationStep(U32(0, 0), U32(0, 0), "Normal")>>,
                   sweep |-> FALSE]
    /\ select_descriptors = DEFAULT_SELECTED_DESCRIPTORS
    /\ dump_file = [exists |-> FALSE, valid |-> TRUE,
                    records |-> CHOOSE d \in DumpOptions : TRUE]
    /\ uspk_set = [status |-> "Empty", set |-> {}]
    /\ finds = <<>>
    /\ detailed_finds = None
    /\ driver = "lib"
    /\ pc = "idle"
    /\ last_result = [call |-> "None", result |-> "None", failure |-> FALSE, rpc |-> 0]
    /\ producer = [status |-> "none", pos |-> 0, panic |-> "none"]
    /\ consumer = "none"
    /\ chan = <<>>
    /\ rx_alive = FALSE
    /\ sent = <<>>
    /\ received = <<>>
    /\ started = <<>>
    /\ failed = {}
    /\ cancelled = FALSE
    /\ calls = 0
    /\ memory = NoMemory
    /\ runs = NoRuns
    /\ sizes = NoSizes

IterNext == ExplorationStep_new \/ Iterator_next \/ reset_iterator

IterSpec == IterInit /\ [][IterNext]_vars

(***************************************************************************)
(* The in-memory set populated from dumps of any content                   *)
(* (src/src/uspk_set.rs).                                                  *)
(***************************************************************************)
ScriptOptions ==
    { CoinAt("P2wpkh", <<Normal(0)>>), CoinAt("P2tr", <<Normal(0)>>),
      CoinAt("P2wpkh", <<Normal(1)>>) }

TxOutOptions == { TxOut(s, a, h) : s \in ScriptOptions, a \in {1, 2}, h \in {1, 2} }

DumpInit ==
    /\ dump_file \in [exists : {TRUE}, valid : BOOLEAN,
                      records : SeqsUpTo(TxOutOptions, MaxRecords)]
    /\ iter = NoIterator
    /\ setting = BuiltSetting
    /\ exploration = NotBuilt
    /\ explorer = [base_paths |-> << <<>> >>,
                   explore |-> <<ExplorationStep(U32(0, 0), U32(0, 1), "Normal")>>,
                   sweep |-> FALSE]
    /\ select_descriptors = DEFAULT_SELECTED_DESCRIPTORS
    /\ uspk_set = [status |-> "Empty", set |-> {}]
    /\ finds = <<>>
    /\ detailed_finds = None
    /\ driver = "lib"
    /\ pc = "idle"
    /\ last_result = [call |-> "None", result |-> "None", failure |-> FALSE, rpc |-> 0]
    /\ producer = [status |-> "none", pos |-> 0, panic |-> "none"]
    /\ consumer = "none"
    /\ chan = <<>>
    /\ rx_alive = FALSE
    /\ sent = <<>>
    /\ received = <<>>
    /\ started = <<>>
    /\ failed = {}
    /\ cancelled = FALSE
    /\ calls = 0
    /\ memory = NoMemory
    /\ runs = NoRuns
    /\ sizes = NoSizes

DumpNext == populate_uspk_set_call \/ populate_uspk_set_ingest

DumpSpec == DumpInit /\ [][DumpNext]_vars

(***************************************************************************)
(* The variables of the Retriever workflow, at rest in the specifications  *)
(* that follow.                                                            *)
(***************************************************************************)
workflowVars ==
    <<explorer, select_descriptors, dump_file, uspk_set, finds, detailed_finds, driver,
      pc, last_result, producer, consumer, chan, rx_alive, sent, received, started,
      failed, cancelled, calls, setting, exploration, iter>>

WorkflowAtRest ==
    /\ iter = NoIterator
    /\ setting = BuiltSetting
    /\ exploration = NotBuilt
    /\ explorer = [base_paths |-> << <<>> >>,
                   explore |-> <<ExplorationStep(U32(0, 0), U32(0, 0), "Normal")>>,
                   sweep |-> FALSE]
    /\ select_descriptors = DEFAULT_SELECTED_DESCRIPTORS
    /\ dump_file = [exists |-> FALSE, valid |-> TRUE,
                    records |-> CHOOSE d \in DumpOptions : TRUE]
    /\ uspk_set = [status |-> "Empty", set |-> {}]
    /\ finds = <<>>
    /\ detailed_finds = None
    /\ driver = "lib"
    /\ pc = "idle"
    /\ last_result = [call |-> "None", result |-> "None", failure |-> FALSE, rpc |-> 0]
    /\ producer = [status |-> "none", pos |-> 0, panic |-> "none"]
    /\ consumer = "none"
    /\ chan = <<>>
    /\ rx_alive = FALSE
    /\ sent = <<>>
    /\ received = <<>>
    /\ started = <<>>
    /\ failed = {}
    /\ cancelled = FALSE

(***************************************************************************)
(* The storage of the secrets: the mnemonic and the passphrase of the      *)
(* setting structs, the mnemonic, the seed and the master xpriv inside     *)
(* Explorer::new, and the master xpriv the Retriever reads from its        *)
(* Explorer.  A storage holds "none" (no secret was written to it),        *)
(* "secret", "overwritten" (zeroized), or "released" (given back with the  *)
(* secret bytes in it).                                                    *)
(***************************************************************************)
RetrieverSettingSecrets == {"RetrieverSetting.mnemonic", "RetrieverSetting.passphrase"}

ExplorerSettingSecrets == {"ExplorerSetting.mnemonic", "ExplorerSetting.passphrase"}

ConstructorSecrets == {"mnemonic", "mnemonic.clone()", "seed", "seed.clone()"}

Storage ==
    RetrieverSettingSecrets \cup ExplorerSettingSecrets \cup ConstructorSecrets
        \cup {"master_xpriv", "Explorer.master_xpriv"}

\* zeroize() of a String, an array or a Mnemonic: every byte is overwritten.
Zeroized(content) == IF content = "secret" THEN "overwritten" ELSE content

\* A drop that overwrites, as a Drop implementation calling zeroize() does.
DroppedZeroizing(content) == Zeroized(content)

\* The drop of a value that has no Drop implementation of its own: the
\* storage is given back as it is.
Dropped(content) == IF content = "secret" THEN "released" ELSE content

\* to_owned() / clone(): a second storage with the same bytes.
Cloned(content) == IF content = "secret" THEN "secret" ELSE "none"

\* The exits of Explorer::new: the five early returns and the success.
ExplorerExits ==
    {"ExplorationPath::new", "from_input_str_to_mnemonic", "from_seed_to_master_xpriv",
     "DerivationPath::from_str", "derive_priv", "Ok"}

\* What the build decides: whether bip39's Mnemonic overwrites itself on
\* drop, whether the by-value copy of the seed exists in memory, and whether
\* the last assignment to master_xpriv, a value never read, is kept.
BuildOptions == [mnemonic_drop_zeroizes : BOOLEAN, seed_copy : BOOLEAN,
                 dead_store_kept : BOOLEAN]

SecretInit ==
    /\ WorkflowAtRest
    /\ calls = 0
    /\ runs = NoRuns
    /\ sizes = NoSizes
    /\ memory \in { [stage |-> "used", build |-> b, store |-> [x \in Storage |-> "none"],
                     retriever_setting |-> "none", explorer_setting |-> "none",
                     explorer |-> "none", exit |-> "none", zeroized |-> {}] :
                    b \in BuildOptions }

\* RetrieverSetting::new / from_config_file.
RetrieverSetting_new ==
    /\ memory.retriever_setting = "none"
    /\ memory' = [memory EXCEPT !.retriever_setting = "live",
                    !.store = [x \in Storage |->
                        IF x \in RetrieverSettingSecrets THEN "secret" ELSE @[x]]]
    /\ UNCHANGED <<workflowVars, runs, sizes>>

\* RetrieverSetting::get_explorer_setting: mnemonic and passphrase are cloned.
get_explorer_setting ==
    /\ memory.retriever_setting = "live"
    /\ memory.explorer_setting = "none"
    /\ memory' = [memory EXCEPT !.explorer_setting = "live",
                    !.store = [x \in Storage |->
                        CASE x = "ExplorerSetting.mnemonic" ->
                                Cloned(@["RetrieverSetting.mnemonic"])
                          [] x = "ExplorerSetting.passphrase" ->
                                Cloned(@["RetrieverSetting.passphrase"])
                          [] OTHER -> @[x]]]
    /\ UNCHANGED <<workflowVars, runs, sizes>>

\* impl Zeroize for RetrieverSetting / ExplorerSetting, called by the owner.
Setting_zeroize ==
    /\ \E which \in {"RetrieverSetting", "ExplorerSetting"} :
        LET secrets == IF which = "RetrieverSetting" THEN RetrieverSettingSecrets
                       ELSE ExplorerSettingSecrets
            state == IF which = "RetrieverSetting" THEN memory.retriever_setting
                     ELSE memory.explorer_setting
        IN  /\ state = "live"
            /\ which \notin memory.zeroized
            /\ memory' = [memory EXCEPT !.zeroized = @ \cup {which},
                            !.store = [x \in Storage |->
                                IF x \in secrets THEN Zeroized(@[x]) ELSE @[x]]]
    /\ UNCHANGED <<workflowVars, runs, sizes>>

\* The drop of a RetrieverSetting: impl ZeroizeOnDrop for RetrieverSetting {}
\* is a marker, the struct has no Drop implementation, its Strings are freed.
RetrieverSetting_drop ==
    /\ memory.retriever_setting = "live"
    /\ memory' = [memory EXCEPT !.retriever_setting = "dropped",
                    !.store = [x \in Storage |->
                        IF x \in RetrieverSettingSecrets THEN Dropped(@[x]) ELSE @[x]]]
    /\ UNCHANGED <<workflowVars, runs, sizes>>

\* The drop of an ExplorerSetting its owner did not hand to Explorer::new.
ExplorerSetting_drop ==
    /\ memory.explorer_setting = "live"
    /\ memory' = [memory EXCEPT !.explorer_setting = "dropped",
                    !.store = [x \in Storage |->
                        IF x \in ExplorerSettingSecrets THEN Dropped(@[x]) ELSE @[x]]]
    /\ UNCHANGED <<workflowVars, runs, sizes>>

\* What Explorer::new leaves in a storage when it returns through an exit.
ExplorerNewLeaves(x, exit, build, before) ==
    LET parsed == exit \notin {"ExplorationPath::new", "from_input_str_to_mnemonic"}
        has_master == parsed /\ exit # "from_seed_to_master_xpriv"
    IN  CASE x \in ExplorerSettingSecrets -> Dropped(before)
          [] x = "mnemonic" /\ parsed -> Zeroized("secret")
          [] x = "mnemonic.clone()" /\ parsed ->
                IF build.mnemonic_drop_zeroizes THEN DroppedZeroizing("secret")
                ELSE Dropped("secret")
          [] x = "seed" /\ parsed ->
                IF has_master THEN Zeroized("secret") ELSE Dropped("secret")
          [] x = "seed.clone()" /\ parsed ->
                IF build.seed_copy THEN Dropped("secret") ELSE "none"
          [] x = "master_xpriv" /\ has_master ->
                IF exit = "Ok" /\ build.dead_store_kept THEN "overwritten"
                ELSE Dropped("secret")
          [] x = "Explorer.master_xpriv" /\ exit = "Ok" -> "secret"
          [] OTHER -> before

\* Explorer::new(setting) as far as the secrets go: the setting is consumed,
\* the constructor returns through one of its exits.
Explorer_new_secrets ==
    /\ memory.explorer_setting = "live"
    /\ memory.explorer = "none"
    /\ \E exit \in ExplorerExits :
        /\ memory.store["ExplorerSetting.mnemonic"] # "secret" =>
                exit \in {"ExplorationPath::new", "from_input_str_to_mnemonic"}
        /\ memory' = [memory EXCEPT !.explorer_setting = "dropped",
                        !.explorer = IF exit = "Ok" THEN "live" ELSE "failed",
                        !.exit = exit,
                        !.store = [x \in Storage |->
                            ExplorerNewLeaves(x, exit, memory.build, @[x])]]
    /\ UNCHANGED <<workflowVars, runs, sizes>>

\* impl Zeroize for Explorer: path_xpubs is replaced and num_scans zeroized;
\* impl Zeroize for Retriever: client and data_dir are zeroized, the explorer
\* is left out.  Neither writes to the master xpriv.
Explorer_zeroize ==
    /\ memory.explorer = "live"
    /\ \E which \in {"Explorer", "Retriever"} :
        /\ which \notin memory.zeroized
        /\ memory' = [memory EXCEPT !.zeroized = @ \cup {which}]
    /\ UNCHANGED <<workflowVars, runs, sizes>>

\* The drop of the Retriever and with it of its Explorer: impl ZeroizeOnDrop
\* for Explorer {} and for Retriever {} are markers, neither has a Drop
\* implementation.
Explorer_drop ==
    /\ memory.explorer = "live"
    /\ memory' = [memory EXCEPT !.explorer = "dropped",
                    !.store = [x \in Storage |->
                        IF x = "Explorer.master_xpriv" THEN Dropped(@[x]) ELSE @[x]]]
    /\ UNCHANGED <<workflowVars, runs, sizes>>

SecretNext ==
    \/ RetrieverSetting_new
    \/ get_explorer_setting
    \/ Setting_zeroize
    \/ RetrieverSetting_drop
    \/ ExplorerSetting_drop
    \/ Explorer_new_secrets
    \/ Explorer_zeroize
    \/ Explorer_drop

SecretSpec == SecretInit /\ [][SecretNext]_vars

(***************************************************************************)
(* The sizes of an exploration path in u64 arithmetic                      *)
(* (src/src/explorer/exploration_path.rs).  A number is kept as its bytes, *)
(* the least significant first: a u64 has U64Bytes of them, the exact      *)
(* value is computed on WideBytes.  An overflow panics in a build with     *)
(* overflow checks (debug) and wraps around in one without (release).      *)
(***************************************************************************)
U64Bytes == 8

WideBytes == 12

\* The sequence of the first n values of f.
RECURSIVE Bytes(_, _)
Bytes(f, n) == IF n = 0 THEN <<>> ELSE Append(Bytes(f, n - 1), f[n])

\* A small number as n bytes.
BytesOf(v, n) ==
    Bytes([i \in 1..n |-> CASE i = 1 -> v % 256
                            [] i = 2 -> (v \div 256) % 256
                            [] i = 3 -> (v \div 65536) % 256
                            [] i = 4 -> v \div 16777216
                            [] OTHER -> 0], n)

\* step.num_children() as u64, as n bytes.
BytesOfU32(u, n) ==
    Bytes([i \in 1..n |-> IF i = 4 THEN BytesOf(u.lo, n)[4] + 128 * u.hi
                          ELSE BytesOf(u.lo, n)[i]], n)

\* The first n bytes of a number, the others being zeros.
Widen(a, n) == Bytes([i \in 1..n |-> IF i <= Len(a) THEN a[i] ELSE 0], n)

\* The bytes of a + b from byte i on, the carry after them as the last one.
RECURSIVE AddDigits(_, _, _, _)
AddDigits(a, b, i, carry) ==
    IF i > Len(a) THEN <<carry>>
    ELSE LET t == a[i] + b[i] + carry IN
         <<t % 256>> \o AddDigits(a, b, i + 1, t \div 256)

\* a + b on Len(a) bytes: the wrapped value, and whether it overflowed.
BytesAdd(a, b) ==
    LET digits == AddDigits(a, b, 1, 0) IN
    [value |-> SubSeq(digits, 1, Len(a)), overflow |-> digits[Len(a) + 1] > 0]

\* The sum of the products a[i] * b[j] with i + j = k + 1, from i on.
RECURSIVE ColumnSum(_, _, _, _)
ColumnSum(a, b, k, i) ==
    IF i > Len(a) THEN 0
    ELSE (IF k + 1 - i \in 1..Len(b) THEN a[i] * b[k + 1 - i] ELSE 0)
            + ColumnSum(a, b, k, i + 1)

\* The bytes of the full product a * b from byte k on.
RECURSIVE MulDigits(_, _, _, _)
MulDigits(a, b, k, carry) ==
    IF k > 2 * Len(a) THEN <<>>
    ELSE LET t == ColumnSum(a, b, k, 1) + carry IN
         <<t % 256>> \o MulDigits(a, b, k + 1, t \div 256)

\* a * b on Len(a) bytes: the wrapped value, and whether it overflowed.
BytesMul(a, b) ==
    LET digits == MulDigits(a, b, 1, 0) IN
    [value |-> SubSeq(digits, 1, Len(a)),
     overflow |-> \E k \in (Len(a) + 1)..(2 * Len(a)) : digits[k] # 0]

\* A result of u64 arithmetic: the value, or the panic of the overflow check.
SizeOk(value) == [result |-> "Ok", value |-> value]

SizePanic == [result |-> "Panic", value |-> BytesOf(0, U64Bytes)]

\* .fold(1, |acc, step| acc * step.num_children() as u64), from step i on.
RECURSIVE FoldChildren(_, _, _, _)
FoldChildren(path, i, acc, build) ==
    IF i > Len(path) THEN SizeOk(acc)
    ELSE LET children == num_children_u32(path[i])
             product == BytesMul(acc, BytesOfU32(children.value, U64Bytes))
         IN  IF (children.overflow \/ product.overflow) /\ build = "debug"
             THEN SizePanic
             ELSE FoldChildren(path, i + 1, product.value, build)

\* ExplorationPath::num_of_paths in u64 arithmetic.
num_of_paths_u64(path, build) ==
    IF path = <<>> THEN SizeOk(BytesOf(0, U64Bytes))
    ELSE FoldChildren(path, 1, BytesOf(1, U64Bytes), build)

\* for path in sweep_exploration_paths { num_paths += path.num_of_paths() },
\* from the prefix of i steps on.
RECURSIVE SweepSum(_, _, _, _)
SweepSum(path, i, num_paths, build) ==
    IF i > Len(path) THEN SizeOk(num_paths)
    ELSE LET size == num_of_paths_u64(SubSeq(path, 1, i), build)
             sum == BytesAdd(num_paths, size.value)
         IN  IF size.result = "Panic" \/ (sum.overflow /\ build = "debug")
             THEN SizePanic
             ELSE SweepSum(path, i + 1, sum.value, build)

\* ExplorationPath::num_of_paths_sweep_from_root in u64 arithmetic.
num_of_paths_sweep_from_root_u64(path, build) ==
    SweepSum(path, 0, BytesOf(1, U64Bytes), build)

WildcardSegments ==
    { <<Char("*")>>, <<Char("*"), Char("'")>>, <<Char("*"), Char("a")>> }

\* Exploration strings of wildcard steps, the first of one hardness and the
\* others of another, and the string of the sweep tests.
SizeStringOptions ==
    { JoinSegments([k \in 1..n |-> IF k = 1 THEN first ELSE others]) :
        n \in 1..MaxWildcards, first \in WildcardSegments, others \in WildcardSegments }
    \cup {SweepTestString}

\* Depths of the wildcard: 1, and the default depth (DEFAULT_EXPLORATION_DEPTH).
SizeDepthOptions == { U32(0, 1), U32(0, 100) }

SizeInit ==
    /\ WorkflowAtRest
    /\ calls = 0
    /\ memory = NoMemory
    /\ runs = NoRuns
    /\ sizes \in { [stage |-> "setting", build |-> b, exploration_path |-> str,
                    exploration_depth |-> d, path |-> <<>>,
                    num_of_paths |-> [result |-> "None", value |-> <<>>],
                    num_of_paths_sweep_from_root |-> [result |-> "None", value |-> <<>>]] :
                   b \in {"debug", "release"}, str \in SizeStringOptions,
                   d \in SizeDepthOptions }

\* ExplorationPath::new on the string and the depth.
ExplorationPath_new_call ==
    /\ sizes.stage = "setting"
    /\ LET parsed == ExplorationPath_new(sizes.exploration_path, sizes.exploration_depth)
       IN  sizes' = [sizes EXCEPT !.stage = IF parsed.ok THEN "path" ELSE "rejected",
                                  !.path = parsed.path]
    /\ UNCHANGED <<workflowVars, memory, runs>>

num_of_paths_call ==
    /\ sizes.stage = "path"
    /\ sizes.num_of_paths.result = "None"
    /\ sizes' = [sizes EXCEPT !.num_of_paths = num_of_paths_u64(sizes.path, sizes.build)]
    /\ UNCHANGED <<workflowVars, memory, runs>>

num_of_paths_sweep_from_root_call ==
    /\ sizes.stage = "path"
    /\ sizes.num_of_paths_sweep_from_root.result = "None"
    /\ sizes' = [sizes EXCEPT !.num_of_paths_sweep_from_root =
                                num_of_paths_sweep_from_root_u64(sizes.path, sizes.build)]
    /\ UNCHANGED <<workflowVars, memory, runs>>

SizeNext ==
    \/ ExplorationPath_new_call
    \/ num_of_paths_call
    \/ num_of_paths_sweep_from_root_call

SizeSpec == SizeInit /\ [][SizeNext]_vars

(***************************************************************************)
(* Whole runs of the binary with one setting over one dump                 *)
(* (src/src/setting.rs, src/src/data/wallets_info.rs, src/src/retriever.rs)*)
(***************************************************************************)
\* The base paths of the preset wallets, wallet after wallet; one path is
\* used by two wallets.  (The program's presets are scaled down.)
PresetWalletPaths == << <<Normal(0)>>, <<Hardened(0)>>, <<Normal(0)>> >>

\* The sequences that hold every element of S once.
Orderings(S) ==
    { q \in SeqsUpTo(S, Cardinality(S)) :
        Len(q) = Cardinality(S) /\ \A x \in S : \E i \in 1..Len(q) : q[i] = x }

\* WalletsInfo::get_all_unique_preset_wallet_base_paths: the paths are put
\* in a std::collections::HashSet and read back by iterating over it; the
\* order of that iteration is fixed anew in every process.
get_all_unique_preset_wallet_base_paths ==
    Orderings({ PresetWalletPaths[k] : k \in 1..Len(PresetWalletPaths) })

\* get_explorer_setting: the base paths given, or else the preset ones.
base_derivation_paths_of(given) ==
    IF given.is_some THEN {given.value} ELSE get_all_unique_preset_wallet_base_paths

\* The dump of the runs: coins under both preset base paths.
RunDump ==
    (CHOOSE d \in DumpOptions : TRUE)
        \o << TxOut(CoinAt("P2wpkh", <<Hardened(0), Normal(0)>>), 1, 1),
              TxOut(CoinAt("P2tr", <<Normal(0), Normal(0)>>), 2, 1),
              TxOut(CoinAt("P2pkh", <<Normal(0), Normal(1)>>), 1, 2) >>

\* The finds of a search from item k of the stream on: the producer sends
\* the paths in order until one is no derivation path, the consumer probes
\* them in that order.
RECURSIVE SearchFrom(_, _, _, _)
SearchFrom(ex, k, select, set) ==
    IF k >= StreamLen(ex) \/ ~PathFromStrOk(StreamText(ex, k)) THEN <<>>
    ELSE ProcessPath(Extend(StreamBase(ex, k), PathFromStr(StreamText(ex, k))),
                     select, set)
            \o SearchFrom(ex, k + 1, select, set)

\* One run of main with base paths in an order: populate, search, details.
RunOf(base_paths, explore, select) ==
    LET set == from_dump_file([exists |-> TRUE, valid |-> TRUE, records |-> RunDump]).set
        found == SearchFrom([base_paths |-> base_paths, explore |-> explore,
                             sweep |-> FALSE], 0, select, set)
        requests == [i \in 1..Len(found) |-> to_path_scan_request_descriptor_trio(found[i])]
    IN  [finds |-> found,
         detailed_finds |-> IF is_empty(found) THEN None
                            ELSE Some(scan_utxo_set(requests, 0).value)]

RunBaseOptions ==
    {None} \cup { Some(b) : b \in BaseOptions \cup { << <<Hardened(0)>>, <<Normal(0)>> >> } }

RunInit ==
    /\ WorkflowAtRest
    /\ calls = 0
    /\ memory = NoMemory
    /\ sizes = NoSizes
    /\ runs \in [stage : {"setting"}, base_derivation_paths : RunBaseOptions,
                 explore : ExploreOptions, select_descriptors : SelectOptions,
                 results : {<<>>}]

\* One more run of the binary with the same setting over the same dump.
main_run ==
    /\ runs.stage = "setting"
    /\ Len(runs.results) < MaxRuns
    /\ \E base_paths \in base_derivation_paths_of(runs.base_derivation_paths) :
            runs' = [runs EXCEPT !.results =
                        Append(@, RunOf(base_paths, runs.explore, runs.select_descriptors))]
    /\ UNCHANGED <<workflowVars, memory, sizes>>

RunNext == main_run

RunSpec == RunInit /\ [][RunNext]_vars

(***************************************************************************)
(* Properties.                                                             *)
(***************************************************************************)
Range(q) == { q[i] : i \in 1..Len(q) }

\* The paths the producer's loops yield when every send completes.
StreamPaths(ex) ==
    { Extend(StreamBase(ex, k), PathFromStr(StreamText(ex, k))) :
        k \in { j \in 0..(StreamLen(ex) - 1) : PathFromStrOk(StreamText(ex, j)) } }

\* search_the_uspk_set has just returned to its caller.
SearchReturned ==
    /\ consumer = "done"
    /\ pc # "searching"
    /\ last_result.call = "P3"

\* C1: when search_the_uspk_set completes, every path of the exploration
\* space whose script-pubkey under a selected template is in the UspkSet has
\* its (path, descriptor) pair in finds.
C1_MatchCompleteness ==
    SearchReturned =>
        \A p \in ExplorationSpace(explorer) : \A t \in select_descriptors :
            CoinAt(t, p) \in uspk_set.set =>
                PathDescriptorPair(p, Descriptor(t, derive_pubkey(p))) \in Range(finds)

\* C2: every entry (p, d) of finds has p among the paths the producer
\* enumerates, the template of d among the selected descriptors, d built from
\* the public key derived at p, and the script-pubkey of d in the UspkSet;
\* with no selected descriptor finds stays empty.
C2_MatchSoundness ==
    /\ \A i \in 1..Len(finds) :
            LET f == finds[i] IN
            /\ f.path \in StreamPaths(explorer)
            /\ f.desc.template \in select_descriptors
            /\ f.desc = Descriptor(f.desc.template, derive_pubkey(f.path))
            /\ script_pubkey(f.desc) \in uspk_set.set
    /\ select_descriptors = {} => finds = <<>>

\* A search under a two-template selection has found a coin and has received
\* a path that holds a coin of a template outside the selection.
C2_Witness ==
    /\ select_descriptors = {"P2wpkh", "P2tr"}
    /\ finds # <<>>
    /\ \E p \in Range(received) :
            \E t \in DEFAULT_SELECTED_DESCRIPTORS \ select_descriptors :
                CoinAt(t, p) \in uspk_set.set

\* The producer waits in send(..).await: the channel is full and its Receiver
\* is alive.
ProducerBlocked ==
    /\ producer.status = "running"
    /\ producer.pos < StreamLen(explorer)
    /\ rx_alive
    /\ ~HasCapacity(chan)

C4_ChannelFifo ==
    /\ consumer = "running" => sent = received \o chan
    /\ consumer = "done" => received = sent
    /\ consumer = "done" /\ producer.status = "done"
            => Len(received) = StreamLen(explorer)

\* The consumer's loop has ended after three or more distinct paths.
C4_Witness ==
    /\ consumer = "done"
    /\ Len(received) >= 3
    /\ received[1] # received[2]

\* C5: during the match phase the paths sent and not yet received never
\* exceed the channel capacity, and no send completes on a full channel.
C5_Backpressure ==
    /\ [](Len(chan) <= ChannelCapacity)
    /\ [](consumer = "running" => Len(sent) - Len(received) <= ChannelCapacity)
    /\ [][(rx_alive /\ Len(chan) >= ChannelCapacity)
            => Len(sent') # Len(sent) + 1]_vars

\* The producer has more to send and the channel is full.
C5_Witness ==
    /\ ProducerBlocked
    /\ Len(chan) = ChannelCapacity

\* C6: after a cancellation of the match phase the producer does not fail at
\* its send, and what it had sent has been received by the consumer.
C6_Cancellation ==
    cancelled =>
        /\ producer.panic # "send"
        /\ SenderDropped(producer) => received = sent

\* C7: main starts the phases in the order P1, P2, P3, P4 and starts a phase
\* only when nothing failed in the phase before it.
C7_PhaseGating ==
    driver = "main" =>
        /\ Len(started) <= Len(MainOrder)
        /\ \A i \in 1..Len(started) : started[i] = MainOrder[i]
        /\ \A i \in 2..Len(started) : started[i - 1] \notin failed

\* C8: populate_uspk_set does not return Ok when the ingest of the dump file
\* failed.
C8_NoSwallowedIngestError ==
    (last_result.call = "P2" /\ last_result.failure) => last_result.result # "Ok"

\* C9: search_the_uspk_set does not return Ok when the producer task failed.
C9_WorkerFailureSurfaced ==
    (last_result.call = "P3" /\ last_result.failure) => last_result.result # "Ok"

\* A step in which populate_uspk_set is called.
PopulateCalled ==
    /\ pc = "idle"
    /\ calls' # calls \/ started' # started
    /\ pc' # "searching"
    /\ pc' = "populating" \/ last_result'.call = "P2"

\* C10: populate_uspk_set called on a Populating set returns
\* PopulatingUSPKSetInProgress and on a Populated set USPKSetAlreadyPopulated;
\* the set, its status and the dump file stay as they are and no ingest
\* begins.
C10_PopulateRejected ==
    [][(PopulateCalled /\ uspk_set.status # "Empty") =>
            /\ last_result'.call = "P2"
            /\ uspk_set.status = "Populating"
                    => last_result'.result = "PopulatingUSPKSetInProgress"
            /\ uspk_set.status = "Populated"
                    => last_result'.result = "USPKSetAlreadyPopulated"
            /\ uspk_set' = uspk_set
            /\ dump_file' = dump_file
            /\ pc' # "populating"]_vars

\* populate_uspk_set has just been refused on a set already populated.
C10_Witness ==
    /\ last_result.call = "P2"
    /\ last_result.result = "USPKSetAlreadyPopulated"
    /\ uspk_set.status = "Populated"
    /\ uspk_set.set # {}

\* A step in which a call that runs in one step is made and returns.
CallReturned(phase) ==
    /\ pc = "idle"
    /\ pc' \notin {"searching", "populating"}
    /\ last_result'.call = phase
    /\ calls' # calls \/ started' # started \/ pc' = "exited"

\* C11: populate_uspk_set called on an Empty set when utxo_dump.dat does not
\* exist returns NoDumpFileInDataDir and leaves the set Empty and empty; a
\* call on an Empty set when the file exists begins the ingest.
C11_NoDumpFileInDataDir ==
    [][(PopulateCalled /\ uspk_set.status = "Empty") =>
            IF ~dump_file.exists
            THEN /\ last_result'.call = "P2"
                 /\ last_result'.result = "NoDumpFileInDataDir"
                 /\ uspk_set' = [status |-> "Empty", set |-> {}]
                 /\ pc' # "populating"
            ELSE pc' = "populating"]_vars

\* populate_uspk_set has just failed for want of a dump file.
C11_Witness ==
    /\ last_result.call = "P2"
    /\ last_result.result = "NoDumpFileInDataDir"
    /\ ~dump_file.exists
    /\ uspk_set.status = "Empty"

\* C12 as stated: check_for_dump_in_data_dir_or_create_dump_file sends
\* dumptxoutset if and only if utxo_dump.dat does not exist, and with the
\* file present returns Ok without a request and without touching the file.
C12_DumpIffMissing ==
    [][CallReturned("P1") =>
            /\ (last_result'.rpc = 1) <=> ~dump_file.exists
            /\ dump_file.exists =>
                    /\ last_result'.result = "Ok"
                    /\ dump_file' = dump_file]_vars

\* C12 amended: dumptxoutset is sent only if utxo_dump.dat does not exist,
\* and then at most once; with the file present the call returns Ok without
\* a request and without touching the file; with the file absent the only
\* call that sends no request is one that fails with IoError creating the
\* data dir, and it leaves the file absent.
C12_DumpReuse ==
    [][CallReturned("P1") =>
            /\ last_result'.rpc \in {0, 1}
            /\ last_result'.rpc = 1 => ~dump_file.exists
            /\ dump_file.exists =>
                    /\ last_result'.result = "Ok"
                    /\ last_result'.rpc = 0
                    /\ dump_file' = dump_file
            /\ (~dump_file.exists /\ last_result'.rpc = 0) =>
                    /\ last_result'.result = "IoError"
                    /\ dump_file' = dump_file]_vars

\* P1 has just returned Ok on a dump file it found, without a request.
C12_Witness ==
    /\ last_result.call = "P1"
    /\ last_result.result = "Ok"
    /\ last_result.rpc = 0
    /\ dump_file.exists

\* C13: dump_utxo_set called when utxo_dump.dat exists returns
\* DumpFileAlreadyExistsInPath, sends no request and leaves the file as it is.
C13_DumpRefusesExistingFile ==
    [][(CallReturned("dump_utxo_set") /\ dump_file.exists) =>
            /\ last_result'.result = "DumpFileAlreadyExistsInPath"
            /\ last_result'.rpc = 0
            /\ dump_file' = dump_file]_vars

\* dump_utxo_set has just refused an existing file.
C13_Witness ==
    /\ last_result.call = "dump_utxo_set"
    /\ last_result.result = "DumpFileAlreadyExistsInPath"
    /\ dump_file.exists

\* C14: get_detailed_finds and print_detailed_finds_on_console called while
\* no detailed finds are stored return DetailsHaveNotBeenFetched and change
\* nothing of the Retriever.
C14_DetailsHaveNotBeenFetched ==
    [][((CallReturned("get_detailed_finds")
            \/ CallReturned("print_detailed_finds_on_console"))
        /\ ~detailed_finds.is_some) =>
            /\ last_result'.result = "DetailsHaveNotBeenFetched"
            /\ UNCHANGED <<explorer, select_descriptors, dump_file, uspk_set, finds,
                           detailed_finds>>]_vars

\* get_detailed_finds has just been refused after a populate and a search.
C14_Witness ==
    /\ last_result.call = "get_detailed_finds"
    /\ last_result.result = "DetailsHaveNotBeenFetched"
    /\ uspk_set.status = "Populated"
    /\ consumer = "done"

\* C15: get_details_of_finds_from_bitcoincore called with no finds returns
\* Ok, sends no scantxoutset and leaves finds and detailed_finds as they are.
C15_NoFindsNoScan ==
    [][(CallReturned("P4") /\ finds = <<>>) =>
            /\ last_result'.result = "Ok"
            /\ last_result'.rpc = 0
            /\ finds' = finds
            /\ detailed_finds' = detailed_finds]_vars

\* P4 has just returned Ok after a search that found nothing.
C15_Witness ==
    /\ last_result.call = "P4"
    /\ last_result.result = "Ok"
    /\ finds = <<>>
    /\ consumer = "done"
    /\ ~detailed_finds.is_some

\* C16: after a successful P4 on finds that are not empty, one scantxoutset
\* was sent per find, detailed_finds is as long as finds and its i-th entry
\* has the path and the descriptor of the i-th find.
C16_ScanResultsInOrder ==
    (last_result.call = "P4" /\ last_result.result = "Ok" /\ pc # "searching"
     /\ finds # <<>>) =>
        /\ last_result.rpc = Len(finds)
        /\ detailed_finds.is_some
        /\ Len(detailed_finds.value) = Len(finds)
        /\ \A i \in 1..Len(finds) :
                /\ detailed_finds.value[i].path = finds[i].path
                /\ detailed_finds.value[i].desc = finds[i].desc

\* P4 has just fetched the details of two different finds.
C16_Witness ==
    /\ last_result.call = "P4"
    /\ last_result.result = "Ok"
    /\ pc # "searching"
    /\ Len(finds) >= 2
    /\ finds[1] # finds[2]
    /\ detailed_finds.is_some

\* C17: when a scantxoutset of P4 fails, scan_utxo_set delivers one outcome,
\* the error, and get_details_of_finds_from_bitcoincore returns it;
\* detailed_finds and finds stay as they are.
C17_ScanErrorSurfaced ==
    [][(CallReturned("P4") /\ last_result'.failure) =>
            /\ last_result'.result = "BitcoincoreRpcCrateError"
            /\ detailed_finds' = detailed_finds
            /\ finds' = finds
            /\ \A fail_at \in 1..Len(finds) :
                    LET r == scan_utxo_set(
                                [i \in 1..Len(finds) |->
                                    to_path_scan_request_descriptor_trio(finds[i])],
                                fail_at)
                    IN r.outcomes = 1 /\ r.result # "Ok"]_vars

\* P4 has just failed at its second scantxoutset, with nothing stored.
C17_Witness ==
    /\ last_result.call = "P4"
    /\ last_result.failure
    /\ last_result.rpc = 2
    /\ Len(finds) >= 2
    /\ ~detailed_finds.is_some

\* C18: search_the_uspk_set called while the set is not Populated returns
\* UnspentScriptPublicKeySetIsNotPopulated.
C18_SearchNeedsPopulatedSet ==
    (SearchReturned /\ uspk_set.status # "Populated") =>
        /\ last_result.result = "UnspentScriptPublicKeySetIsNotPopulated"
        /\ finds = <<>>

\* C19: get_details_of_finds_from_bitcoincore called before any search
\* returns NoSearchHasBeenPerformed.
C19_DetailsNeedSearch ==
    (last_result.call = "P4" /\ consumer = "none") =>
        last_result.result = "NoSearchHasBeenPerformed"

\* The distinct derivation paths Explorer::new enumerated.
EnumeratedPaths == Range(exploration.complete_paths)

\* C20: for every exploration string the parser accepts, every depth and
\* sweep = false, the size computed without enumeration (the number of base
\* paths times the product of the steps' children counts) equals the number
\* of distinct derivation paths the enumeration produces.
C20_ParseThenSize ==
    (exploration.stage = "done" /\ exploration.accepted /\ ~setting.sweep) =>
        exploration.size = Cardinality(EnumeratedPaths)

\* The size is exact where the indices are BIP32 indices and no base path is
\* given twice.
SizeExactOnDistinctValidPaths ==
    (/\ exploration.stage = "done" /\ exploration.accepted /\ ~setting.sweep
     /\ exploration.result = "Ok"
     /\ \A a, b \in 1..Len(setting.base_derivation_paths) :
            setting.base_derivation_paths[a] = setting.base_derivation_paths[b] => a = b)
        => exploration.size = Cardinality(EnumeratedPaths)

\* The sum over i in 0..Len(path) of the product of the children counts of
\* path[..i], the empty prefix counting 1.
RECURSIVE PrefixProductSum(_, _)
PrefixProductSum(path, i) ==
    IF i > Len(path) THEN 0
    ELSE ChildrenProduct(SubSeq(path, 1, i)) + PrefixProductSum(path, i + 1)

\* C21: with sweep = true the size computed without enumeration equals the
\* number of paths the sweep enumeration emits, which is, for every base
\* path, the sum over the prefixes of the steps of the product of their
\* children counts; for "*a/..2h/4" it is 29 at depth 1 and 57 at depth 3.
C21_SweepSize ==
    (exploration.stage = "done" /\ exploration.accepted /\ setting.sweep) =>
        /\ exploration.size = Len(exploration.complete_paths)
        /\ exploration.size = Len(setting.base_derivation_paths)
                                * PrefixProductSum(exploration.path, 0)
        /\ (setting.exploration_path = SweepTestString
                /\ Len(setting.base_derivation_paths) = 1) =>
                /\ setting.exploration_depth = U32(0, 1) => exploration.size = 29
                /\ setting.exploration_depth = U32(0, 3) => exploration.size = 57

\* The sweep size is exact where the enumeration succeeds.
SweepSizeExactOnValidPaths ==
    (exploration.stage = "done" /\ exploration.accepted /\ setting.sweep
        /\ exploration.result = "Ok") =>
        /\ exploration.size = Len(exploration.complete_paths)
        /\ exploration.size = Len(setting.base_derivation_paths)
                                * PrefixProductSum(exploration.path, 0)
        /\ (setting.exploration_path = SweepTestString
                /\ Len(setting.base_derivation_paths) = 1) =>
                /\ setting.exploration_depth = U32(0, 1) => exploration.size = 29
                /\ setting.exploration_depth = U32(0, 3) => exploration.size = 57

\* The sweep sequence of an exploration path: for every base path, the bare
\* base path and then the products of steps[..1], ..., steps[..len].
SweepEmission(ex) ==
    LET texts == generate_derivation_paths_for_exploration_path_sweep(ex.explore) IN
    complete_paths(ex.base_paths, [k \in 1..Len(texts) |-> PathFromStr(texts[k])])

\* C22: with sweep = true the paths sent to the matcher are, for every base
\* path, the bare base path followed by the products of the truncated step
\* sequences steps[..1], ..., steps[..len], in that order.
C22_SweepEmission ==
    (explorer.sweep /\ producer.status = "done") => sent = SweepEmission(explorer)

\* The derivation path extends the base path.
UnderBase(path, base) ==
    Len(path) >= Len(base) /\ SubSeq(path, 1, Len(base)) = base

\* C23: the producer emits the paths with the outer loop over base_paths in
\* input order: every path under base_paths[a] is sent before any path under
\* a later base path.
C23_EnumerationOrder ==
    \A i, j \in 1..Len(sent) : \A a, b \in 1..Len(explorer.base_paths) :
        (/\ i < j /\ a < b
         /\ UnderBase(sent[i], explorer.base_paths[b])
         /\ ~UnderBase(sent[i], explorer.base_paths[a])
         /\ UnderBase(sent[j], explorer.base_paths[a])
         /\ ~UnderBase(sent[j], explorer.base_paths[b])) => FALSE

\* The step has at least k children: start <= end and the k-th index is not
\* beyond end (twice as many for HardenedAndNormal).
ExpectedAtLeast(step, k) ==
    /\ ~U32Less(step.end_inclusive, step.start_inclusive)
    /\ LET d == U32SubW(step.end_inclusive, step.start_inclusive).value IN
       \/ d.hi = 1
       \/ d.lo >= k - 1
       \/ step.hardness = "HardenedAndNormal" /\ 2 * (d.lo + 1) >= k

\* The k-th child of a step in the stated order: start..=end ascending, for
\* HardenedAndNormal the hardened ones and then the normal ones.
ExpectedItem(step, k) ==
    LET d == U32SubW(step.end_inclusive, step.start_inclusive).value
        first_half == d.hi = 1 \/ d.lo >= k - 1
    IN  IF first_half
        THEN ChildStr(U32Add(step.start_inclusive, k - 1), step.hardness # "Normal")
        ELSE ChildStr(U32Add(step.start_inclusive, k - 1 - (d.lo + 1)), FALSE)

\* What a fresh iterator has yielded so far is what the step stands for.
YieldedAsExpected ==
    /\ iter.ended # "panic"
    /\ \A k \in 1..Len(iter.yielded) :
            ExpectedAtLeast(iter.step, k) /\ iter.yielded[k] = ExpectedItem(iter.step, k)
    /\ iter.ended = "none" => ~ExpectedAtLeast(iter.step, Len(iter.yielded) + 1)

\* C24: iterating an ExplorationStep from a fresh state yields exactly its
\* children before the first None: the indices start..=end in ascending order,
\* hardened ones marked, and for HardenedAndNormal the hardened children
\* start..=end and then the normal children start..=end.
C24_StepIteration == iter.state = "built" => YieldedAsExpected

\* The iterator is exact on every step whose children count fits a u32.
StepIterationExactWithoutOverflow ==
    (iter.state = "built" /\ ~num_children_u32(iter.step).overflow) => YieldedAsExpected

NoDuplicates(q) == \A i, j \in 1..Len(q) : q[i] = q[j] => i = j

\* C25: with sweep = false and pairwise distinct base paths, the enumeration
\* is a finite sequence in which no derivation path occurs twice.
C25_NoDuplicatePaths ==
    (~explorer.sweep /\ NoDuplicates(explorer.base_paths)) =>
        /\ NoDuplicates(sent)
        /\ Len(sent) <= StreamLen(explorer)

\* The producer has sent the whole of a space of two base paths and two
\* exploration paths or more.
C25_Witness ==
    /\ ~explorer.sweep
    /\ Len(explorer.base_paths) = 2
    /\ producer.status = "done"
    /\ Len(sent) >= 4

\* The characters 0-9 . / ' h a *
Admissible(token) == token.kind \in {"digits", ".", "/", "'", "h", "a", "*"}

\* A segment of the mini-language: N, A..B or ..B in decimal digits, or *,
\* with an optional suffix ', h or a.
IsStepForm(segment) ==
    LET body == StripSuffix(segment)
        number(i) == body[i].kind = "digits"
        dots(i) == body[i].kind = "." /\ body[i + 1].kind = "."
    IN  \/ Len(body) = 1 /\ (number(1) \/ body[1].kind = "*")
        \/ Len(body) = 3 /\ dots(1) /\ number(3)
        \/ Len(body) = 4 /\ number(1) /\ dots(2) /\ number(4)

\* The non-empty segments between the slashes of the setting's string.
Segments == split_path_steps(setting.exploration_path)

SyntaxError ==
    \/ \E i \in 1..Len(setting.exploration_path) :
            ~Admissible(setting.exploration_path[i])
    \/ \E i \in 1..Len(Segments) : ~IsStepForm(Segments[i])

\* C26: ExplorationPath::new returns InvalidExplorationPath for every input
\* with a character outside 0-9 . / ' h a * and for every input with a
\* non-empty segment that is neither a point or range step nor a wildcard
\* step, and constructs no ExplorationPath.
C26_InvalidExplorationPath ==
    (exploration.stage = "done" /\ SyntaxError) =>
        ~exploration.accepted /\ exploration.result = "InvalidExplorationPath"

\* The syntax errors of strings of ASCII characters are reported.
SyntaxErrorReportedOnAscii ==
    (exploration.stage = "done" /\ SyntaxError
        /\ \A i \in 1..Len(setting.exploration_path) :
                setting.exploration_path[i].kind # "digits_non_ascii") =>
        ~exploration.accepted /\ exploration.result = "InvalidExplorationPath"

\* C27: an input with no valid step (the empty string, a string of slashes
\* only) is rejected with InvalidExplorationPath, so ExplorationPath::new
\* never returns an ExplorationPath with zero steps.
C27_NoStepRejected ==
    exploration.stage = "done" =>
        /\ Segments = <<>> =>
                ~exploration.accepted /\ exploration.result = "InvalidExplorationPath"
        /\ exploration.accepted => exploration.path # <<>>

\* The empty string is rejected.
EmptyStringRejected ==
    (exploration.stage = "done" /\ setting.exploration_path = <<>>) =>
        ~exploration.accepted /\ exploration.result = "InvalidExplorationPath"

\* The segment is a range A..B with B < A.
IsReversedRange(segment) ==
    LET body == StripSuffix(segment) IN
    /\ IsStepForm(segment)
    /\ Len(body) = 4
    /\ \/ body[4].value.hi < body[1].value.hi
       \/ body[4].value.hi = body[1].value.hi /\ body[4].value.lo < body[1].value.lo

HasReversedRange == \E i \in 1..Len(Segments) : IsReversedRange(Segments[i])

ExpectedStep(segment, depth) ==
    LET body == StripSuffix(segment)
        suffix == IF Len(segment) > Len(body) THEN segment[Len(segment)].kind ELSE "none"
        hardness == IF suffix \in {"'", "h"} THEN "Hardened"
                    ELSE IF suffix = "a" THEN "HardenedAndNormal"
                    ELSE "Normal"
    IN  IF body[1].kind = "*" THEN ExplorationStep(U32(0, 0), depth, hardness)
        ELSE IF Len(body) = 1 THEN ExplorationStep(body[1].value, body[1].value, hardness)
        ELSE IF Len(body) = 3 THEN ExplorationStep(U32(0, 0), body[3].value, hardness)
        ELSE ExplorationStep(body[1].value, body[4].value, hardness)

\* C29: the parser maps each step form to its range and hardness: N gives
\* [N,N], A..B gives [A,B], a missing A meaning 0, * gives [0,depth], each
\* with the hardness of its suffix; depth = 0 with "*" yields exactly child 0.
C29_StepForms ==
    (exploration.stage = "done" /\ exploration.accepted) =>
        /\ Len(exploration.path) = Len(Segments)
        /\ \A i \in 1..Len(Segments) :
                exploration.path[i] = ExpectedStep(Segments[i], setting.exploration_depth)
        /\ (/\ setting.exploration_path = <<Char("/"), Char("*")>>
            /\ setting.exploration_depth = U32(0, 0)
            /\ ~setting.sweep
            /\ setting.base_derivation_paths = << <<>> >>) =>
                exploration.complete_paths = << <<Normal(0)>> >>

\* "..1h/*'" at depth 2 has been parsed.
C29_Witness ==
    /\ exploration.stage = "done"
    /\ exploration.accepted
    /\ setting.exploration_depth = U32(0, 2)
    /\ Len(Segments) = 2
    /\ Len(Segments[1]) = 4 /\ Segments[1][1].kind = "." /\ Segments[1][4].kind = "h"
    /\ Len(Segments[2]) = 2 /\ Segments[2][1].kind = "*" /\ Segments[2][2].kind = "'"
    /\ exploration.path = <<ExplorationStep(U32(0, 0), U32(0, 1), "Hardened"),
                            ExplorationStep(U32(0, 0), U32(0, 2), "Hardened")>>

\* 0 <= start <= end <= 2^31 - 1
InStepBounds(step) ==
    /\ step.end_inclusive.hi = 0
    /\ step.start_inclusive.hi = 0
    /\ step.start_inclusive.lo <= step.end_inclusive.lo

\* C30: every ExplorationStep the parser constructs from an accepted string
\* and a depth satisfies 0 <= start <= end <= 2^31 - 1.
C30_StepBounds ==
    (exploration.stage = "done" /\ exploration.accepted) =>
        \A i \in 1..Len(exploration.path) : InStepBounds(exploration.path[i])

\* The steps of the parser have start <= end.
ParsedStepsOrdered ==
    (exploration.stage = "done" /\ exploration.accepted) =>
        \A i \in 1..Len(exploration.path) :
            LET step == exploration.path[i] IN
            \/ step.start_inclusive.hi < step.end_inclusive.hi
            \/ /\ step.start_inclusive.hi = step.end_inclusive.hi
               /\ step.start_inclusive.lo <= step.end_inclusive.lo

\* end - start + 1, or twice that for HardenedAndNormal, as a number, for a
\* step in bounds with a small range.
ChildrenCount(step) ==
    LET n == step.end_inclusive.lo - step.start_inclusive.lo + 1 IN
    IF step.hardness = "HardenedAndNormal" THEN 2 * n ELSE n

SmallRange(step) == step.end_inclusive.lo - step.start_inclusive.lo < 1000

\* C31: for every step with 0 <= start <= end <= 2^31 - 1, num_children
\* returns end - start + 1 for Normal and Hardened and 2 * (end - start + 1)
\* for HardenedAndNormal, computed in u32 arithmetic without wrap-around.
C31_NumChildren ==
    (iter.state = "built" /\ InStepBounds(iter.step)) =>
        /\ ~num_children_u32(iter.step).overflow
        /\ SmallRange(iter.step) =>
                num_children_u32(iter.step).value = U32(0, ChildrenCount(iter.step))

\* num_children is exact for Normal and Hardened steps in bounds, and for
\* HardenedAndNormal steps of fewer than 2^31 indices.
NumChildrenExactBelowOverflow ==
    (/\ iter.state = "built" /\ InStepBounds(iter.step)
     /\ (iter.step.hardness = "HardenedAndNormal" =>
            iter.step.end_inclusive.lo - iter.step.start_inclusive.lo < Low31Max)) =>
        /\ ~num_children_u32(iter.step).overflow
        /\ SmallRange(iter.step) =>
                num_children_u32(iter.step).value = U32(0, ChildrenCount(iter.step))

\* C37: after any number of runs of search_the_uspk_set on one Retriever, with
\* pairwise distinct base paths and sweep = false, finds holds each (path,
\* descriptor) pair at most once.
C37_FindsWithoutRepetition ==
    (~explorer.sweep /\ NoDuplicates(explorer.base_paths)) => NoDuplicates(finds)

\* The finds of main, which searches once, hold no pair twice.
FindsOfOneSearchWithoutRepetition ==
    (driver = "main" /\ ~explorer.sweep /\ NoDuplicates(explorer.base_paths)) =>
        NoDuplicates(finds)

\* C38: once get_details_of_finds_from_bitcoincore has returned success,
\* get_detailed_finds and print_detailed_finds_on_console return success, also
\* when the search produced zero finds.
C38_DetailsAfterSuccess ==
    [][((CallReturned("get_detailed_finds")
            \/ CallReturned("print_detailed_finds_on_console"))
        /\ last_result.call = "P4" /\ last_result.result = "Ok") =>
            last_result'.result = "Ok"]_vars

\* After a successful fetch of one find or more the getters succeed.
DetailsAfterFetchOfFinds ==
    [][((CallReturned("get_detailed_finds")
            \/ CallReturned("print_detailed_finds_on_console"))
        /\ last_result.call = "P4" /\ last_result.result = "Ok" /\ finds # <<>>) =>
            last_result'.result = "Ok"]_vars

\* C39: once an ExplorationStep iterator has returned None, every later call
\* of next() returns None until reset_iterator is called; after a reset the
\* iterator yields the same sequence as a fresh step.
C39_NoneUntilReset ==
    iter.state = "built" =>
        /\ \A k \in 1..Len(iter.later) : iter.later[k].kind = "None"
        /\ iter.resets > 0 =>
              \A k \in 1..Len(IteratorTrace(iter)) :
                  k <= Len(iter.fresh) => IteratorTrace(iter)[k] = iter.fresh[k]

\* After a reset the iterator returns what it returned as a fresh step.
SameSequenceAfterReset ==
    (iter.state = "built" /\ iter.resets > 0) =>
        \A k \in 1..Len(IteratorTrace(iter)) :
            k <= Len(iter.fresh) => IteratorTrace(iter)[k] = iter.fresh[k]

\* A reset iterator has returned a child and then None, as it did when fresh.
SameSequenceAfterReset_Witness ==
    /\ iter.state = "built" /\ iter.resets > 0
    /\ Len(iter.fresh) >= 2 /\ iter.ended = "none" /\ Len(iter.yielded) >= 1

\* The dump holds a record that carries exactly this script-pubkey.
Carried(script) ==
    \E k \in 1..Len(dump_file.records) : dump_file.records[k].script_pubkey = script

\* C36: after population a script-pubkey is present in the set if and only
\* if some ingested record carried exactly those bytes; duplicates collapse
\* to one entry, and amount and height never influence membership.
C36_SetSemantics ==
    uspk_set.status = "Populated" =>
        /\ \A t \in {"P2wpkh", "P2tr"}, path \in { <<Normal(0)>>, <<Normal(1)>> } :
              Contains(uspk_set.set, Descriptor(t, derive_pubkey(path)))
                  <=> Carried(CoinAt(t, path))
        /\ \A script \in uspk_set.set : Carried(script)
        /\ Cardinality(uspk_set.set)
              = Cardinality({ dump_file.records[k].script_pubkey :
                                k \in 1..Len(dump_file.records) })

\* The set is populated from a dump that carries one script-pubkey twice, with
\* different amounts and heights, and another once, in the second block.
C36_Witness ==
    /\ uspk_set.status = "Populated"
    /\ Len(dump_file.records) = 3
    /\ dump_file.records[1].script_pubkey = dump_file.records[3].script_pubkey
    /\ dump_file.records[1].amount # dump_file.records[3].amount
    /\ dump_file.records[1].height # dump_file.records[3].height
    /\ dump_file.records[2].script_pubkey # dump_file.records[1].script_pubkey
    /\ dump_file.records[2].height = 2
    /\ Cardinality(uspk_set.set) = 2

Overwritten(x) == memory.store[x] \in {"none", "overwritten"}

\* C33: on every exit path of Explorer::new, the success or any error return,
\* the mnemonic and the 64-byte seed held by the constructor have been
\* overwritten before it returns.
C33_SecretsOverwrittenInNew ==
    memory.exit # "none" => \A x \in ConstructorSecrets : Overwritten(x)

\* The mnemonic parsed by the constructor is overwritten on every exit, and
\* the seed on every exit except the failure of from_seed_to_master_xpriv.
LocalsOverwrittenInNew ==
    memory.exit # "none" =>
        /\ Overwritten("mnemonic")
        /\ memory.exit # "from_seed_to_master_xpriv" => Overwritten("seed")

\* C34: when the key deriver, or the Retriever that owns it, is dropped or
\* zeroized, the storage holding the master xpriv's private bytes is
\* overwritten.
C34_MasterXprivOverwritten ==
    (memory.explorer = "dropped" \/ memory.zeroized \cap {"Explorer", "Retriever"} # {}) =>
        memory.store["Explorer.master_xpriv"] = "overwritten"

\* C35: when a setting struct carrying the mnemonic and the passphrase is
\* dropped, its mnemonic and passphrase are overwritten as part of the drop.
C35_SettingOverwrittenOnDrop ==
    /\ memory.retriever_setting = "dropped" =>
            \A x \in RetrieverSettingSecrets : Overwritten(x)
    /\ memory.explorer_setting = "dropped" =>
            \A x \in ExplorerSettingSecrets : Overwritten(x)

\* A setting struct on which zeroize() was called holds no secret, and none
\* after its drop.
SettingOverwrittenOnZeroize ==
    /\ "RetrieverSetting" \in memory.zeroized =>
            \A x \in RetrieverSettingSecrets : Overwritten(x)
    /\ "ExplorerSetting" \in memory.zeroized =>
            \A x \in ExplorerSettingSecrets : Overwritten(x)

\* The product of acc and the children counts of the steps from i on, on
\* WideBytes.
RECURSIVE ExactProduct(_, _, _)
ExactProduct(path, i, acc) ==
    IF i > Len(path) THEN acc
    ELSE LET product == BytesMul(acc, BytesOf(ChildrenCount(path[i]), WideBytes)) IN
         IF product.overflow THEN <<>> ELSE ExactProduct(path, i + 1, product.value)

\* The number of paths of the steps: the product of their children counts.
ExactSize(path) == ExactProduct(path, 1, BytesOf(1, WideBytes))

\* sum plus the numbers of paths of the prefixes of i steps or more, where
\* product is the number of paths of the prefix of i - 1 steps, on WideBytes.
RECURSIVE ExactSum(_, _, _, _)
ExactSum(path, i, product, sum) ==
    IF i > Len(path) THEN sum
    ELSE LET longer == BytesMul(product, BytesOf(ChildrenCount(path[i]), WideBytes))
             more == BytesAdd(sum, longer.value)
         IN  IF longer.overflow \/ more.overflow THEN <<>>
             ELSE ExactSum(path, i + 1, longer.value, more.value)

\* The number of paths of the sweep: "m", and the paths of every prefix of
\* one step or more.
ExactSweep(path) == ExactSum(path, 1, BytesOf(1, WideBytes), BytesOf(1, WideBytes))

\* The u64 result is the exact number.
SizeExact(size, exact) ==
    size.result # "None" => (size.result = "Ok" /\ Widen(size.value, WideBytes) = exact)

FitsU64(exact) == \A i \in (U64Bytes + 1)..WideBytes : exact[i] = 0

\* C40: for every exploration path the parser accepts, num_of_paths and
\* num_of_paths_sweep_from_root return the exact product and sum: the 64-bit
\* accumulator never wraps around or overflows.
C40_SizesExact ==
    sizes.stage = "path" =>
        /\ SizeExact(sizes.num_of_paths, ExactSize(sizes.path))
        /\ SizeExact(sizes.num_of_paths_sweep_from_root, ExactSweep(sizes.path))

\* The sizes are exact whenever the exact numbers are below 2^64.
SizesExactBelowOverflow ==
    sizes.stage = "path" =>
        /\ FitsU64(ExactSize(sizes.path)) =>
                SizeExact(sizes.num_of_paths, ExactSize(sizes.path))
        /\ FitsU64(ExactSweep(sizes.path)) =>
                SizeExact(sizes.num_of_paths_sweep_from_root, ExactSweep(sizes.path))

\* Both sizes of nine wildcard steps at the default depth are computed.
SizesExactBelowOverflow_Witness ==
    /\ sizes.stage = "path" /\ Len(sizes.path) = 9
    /\ sizes.exploration_depth = U32(0, 100)
    /\ sizes.num_of_paths.result = "Ok"
    /\ sizes.num_of_paths_sweep_from_root.result = "Ok"
    /\ FitsU64(ExactSweep(sizes.path))

SeqRange(q) == { q[i] : i \in 1..Len(q) }

\* C32: two runs with identical settings over the same UTXO snapshot produce
\* the same finds as a set and the same detailed finds in the same order,
\* with user-supplied base paths and also when base_derivation_paths is
\* omitted and the preset union is used.
C32_Determinism ==
    runs.stage = "setting" =>
        \A i, j \in 1..Len(runs.results) :
            /\ SeqRange(runs.results[i].finds) = SeqRange(runs.results[j].finds)
            /\ runs.results[i].detailed_finds = runs.results[j].detailed_finds

\* Two runs produce the same finds as a set, and with user-supplied base
\* paths the same finds and detailed finds in the same order.
DeterminismWithGivenBasePaths ==
    runs.stage = "setting" =>
        \A i, j \in 1..Len(runs.results) :
            /\ SeqRange(runs.results[i].finds) = SeqRange(runs.results[j].finds)
            /\ runs.base_derivation_paths.is_some => runs.results[i] = runs.results[j]

\* Two runs with user-supplied base paths have found coins under each base.
DeterminismWithGivenBasePaths_Witness ==
    /\ runs.stage = "setting" /\ Len(runs.results) = 2
    /\ runs.base_derivation_paths.is_some
    /\ Len(runs.results[1].finds) >= 2
    /\ \E a, b \in 1..Len(runs.results[1].finds) :
            /\ Head(runs.results[1].finds[a].path) = Normal(0)
            /\ Head(runs.results[1].finds[b].path) = Hardened(0)
====
